---- MODULE Spec2Model ----
(***************************************************************************)
(* A model of the concurrency-relevant parts of mcp-sql-server:            *)
(*   - SimpleConnectionPool (get_connection / return_connection),          *)
(*   - the process-wide circuit breaker of DbConnectionService,            *)
(*   - ConcurrencyThrottler.acquire and ExecutionService.execute_readonly. *)
(* Each `with lock:` block of the source and each thread-safe Queue        *)
(* operation is one atomic step; everything between two such blocks can    *)
(* interleave with the other workers.                                      *)
(***************************************************************************)
EXTENDS Integers, Sequences, FiniteSets, TLC

(***************************************************************************)
(* Bounds of the model.                                                    *)
(***************************************************************************)
\* number of worker threads that use one SimpleConnectionPool
NumWorkers == 2
\* largest pool capacity (connection_pool_size) drawn at construction
MaxPoolSize == 2
\* number of threads that call DbConnectionService.get_connection
NumAcquirers == 2
\* the clock stops here (seconds)
MaxTime == 32
\* concurrent execute_readonly calls contending for the throttle
NumThrottleCalls == 2
\* largest max_concurrent_queries / max_concurrent_queries_per_user configured
MaxLimit == 2
\* most statements in one submitted script
MaxStmts == 2
\* the highest plan cost drawn, in whole cost units
MaxCost == 3
\* the longest result set a statement yields
MaxStream == 3
\* rows per cursor.fetchmany (batch_size, 100 in the source), scaled down
BatchSize == 2
\* bytes in one MB of max_payload_size_mb (1024 * 1024 in the source), scaled down
BytesPerMb == 4
\* the highest max_rows and max_payload_size_mb configured
MaxRowsConfigured == 2
MaxPayloadMb == 1
\* the most table references in a statement
MaxTables == 2

PoolWorkers == 1..NumWorkers
\* A pool never references more connections than the idle queue can hold plus
\* one per worker, so these identities always suffice for a fresh connection.
ConnIds == 1..(MaxPoolSize + NumWorkers)
NoConn == 0

VARIABLES
    \* ---- SimpleConnectionPool -------------------------------------------
    max_size,        \* self.max_size
    pool,            \* self.pool: the Queue of idle connections (FIFO)
    current_count,   \* self.current_count
    alive,           \* connections on which "SELECT 1" currently succeeds
    p_pc,            \* each worker's position inside the pool's methods
    p_conn,          \* each worker's local variable `conn`
    p_held,          \* the connection get_connection returned to the worker
    \* ---- circuit breaker (_CIRCUIT_STATE) and its callers ----------------
    failures,            \* _CIRCUIT_STATE["failures"]
    last_failure_time,   \* _CIRCUIT_STATE["last_failure_time"]
    is_open,             \* _CIRCUIT_STATE["is_open"]
    now,                 \* time.time(), in seconds
    b_pc,                \* each caller's position inside get_connection
    b_res,               \* how each caller's last get_connection ended
    consec,              \* history: factory failures since the last recorded success
    trial,               \* history: the caller (if any) admitted by the half-open reset, while in flight
    \* ---- ConcurrencyThrottler and ExecutionService.execute_readonly ------
    max_concurrent_queries,           \* self.max_concurrent_queries
    max_concurrent_queries_per_user,  \* self.max_concurrent_queries_per_user
    active_queries,      \* self.active_queries: {env: {user: count}}
    e_pc,                \* each call's position inside execute_readonly
    e_env,               \* target_env of the call
    e_user,              \* user of the call
    e_parsed,            \* validate_readonly's `parsed`: the query's statements, empties dropped
    acquired,            \* the local `acquired` of ConcurrencyThrottler.acquire
    response,            \* the dict the call returns
    e_stage,             \* which caller of execute_query is running
    e_conn,              \* execute_query's local `conn` is set
    e_dbres,             \* how the last execute_query ended
    e_rel,               \* history: throttle decrements made for the call
    e_out,               \* history: pooled connections the call acquired and has not given back
    e_db,                \* history: the call reached the database (a connection, a statement)
    e_in,                \* the values the gate at hand has read: arguments, configuration, the review so far
    e_extra,             \* the keys of the returned dict beyond success, error, risk_score, retry_after_seconds
    e_limits,            \* Layer 3: the environment's settings the call has read
    e_page,              \* the arguments page_size and page, from the pagination rewrite on
    e_sent,              \* final_query as Layer 6 sends it: which rewrites it carries
    \* ---- the rewriters, applied to a statement on their own ---------------
    r_stmt,              \* the statement: the argument `query` of the next rewriter
    r_last,              \* the rewriter that returned r_stmt, and its arguments
    r_times,             \* how often in a row it has been applied (counted up to 2)
    \* ---- ReviewService.review on a script of its own ----------------------
    v_sql,               \* the script reviewed: what the rules see in it
    v_weights,           \* config.safety.risk_weights
    v_stage,             \* how far review has come
    v_result,            \* the ReviewResult: its summary and issues
    v_safety,            \* the ReviewResult: safety_checks
    v_insights           \* performance_insights.execution_plan_available, and
                         \* whether review has asked for a database connection

poolVars == <<max_size, pool, current_count, alive, p_pc, p_conn, p_held>>
breakerVars == <<failures, last_failure_time, is_open, now, b_pc, b_res, consec, trial>>
throttleVars == <<max_concurrent_queries, max_concurrent_queries_per_user, active_queries>>
gateVars == <<e_in, e_extra, e_limits, e_page, e_sent>>
execVars == <<throttleVars, e_pc, e_env, e_user, e_parsed, acquired, response, e_stage, e_conn,
              e_dbres, e_rel, e_out, e_db, gateVars>>

rewriteVars == <<r_stmt, r_last, r_times>>

reviewVars == <<v_sql, v_weights, v_stage, v_result, v_safety, v_insights>>

vars == <<poolVars, breakerVars, execVars, rewriteVars, reviewVars>>

\* what a step of one part of the program leaves alone
nonPoolVars == <<breakerVars, execVars, rewriteVars, reviewVars>>
nonBreakerVars == <<poolVars, execVars, rewriteVars, reviewVars>>
nonExecVars == <<poolVars, breakerVars, rewriteVars, reviewVars>>
nonRewriteVars == <<poolVars, breakerVars, execVars, reviewVars>>
nonReviewVars == <<poolVars, breakerVars, execVars, rewriteVars>>

(***************************************************************************)
(* SimpleConnectionPool                                                    *)
(***************************************************************************)
SeqToSet(q) == {q[i] : i \in 1..Len(q)}

\* Every connection some part of the program still references.
Referenced ==
    SeqToSet(pool) \cup {p_conn[w] : w \in PoolWorkers} \cup {p_held[w] : w \in PoolWorkers}

\* pyodbc.connect returns a new object: an identity nothing references.
FreshConn == CHOOSE c \in ConnIds : c \notin Referenced /\ \A d \in ConnIds : d \notin Referenced => c <= d

\* _validate_connection: cursor.execute("SELECT 1") succeeds or raises.
ValidateConnection(c) == c \in alive

\* Queue.get / Queue.get_nowait: what is left in the queue after a take.
QueueAfterGetPeek(q) == q
QueueAfterGet(q) == Tail(q)

PoolInit ==
    /\ pool = <<>>
    /\ current_count = 0
    /\ alive = {}
    /\ p_pc = [w \in PoolWorkers |-> "out"]
    /\ p_conn = [w \in PoolWorkers |-> NoConn]
    /\ p_held = [w \in PoolWorkers |-> NoConn]

\* A worker that holds no connection calls get_connection.
PoolCallGet(w) ==
    /\ p_pc[w] = "out" /\ p_held[w] = NoConn
    /\ p_pc' = [p_pc EXCEPT ![w] = "get_nowait"]
    /\ UNCHANGED <<max_size, pool, current_count, alive, p_conn, p_held>>
    /\ UNCHANGED nonPoolVars

\* conn = self.pool.get_nowait()   (Empty: fall through to the create check)
PoolGetNowait(w) ==
    /\ p_pc[w] = "get_nowait"
    /\ IF pool # <<>>
         THEN /\ p_conn' = [p_conn EXCEPT ![w] = Head(pool)]
              /\ pool' = QueueAfterGet(pool)
              /\ p_pc' = [p_pc EXCEPT ![w] = "validate"]
         ELSE /\ p_pc' = [p_pc EXCEPT ![w] = "check_create"]
              /\ UNCHANGED <<pool, p_conn>>
    /\ UNCHANGED <<max_size, current_count, alive, p_held>>
    /\ UNCHANGED nonPoolVars

\* if self._validate_connection(conn): return conn
\* else: self._discard_connection(conn)  -- conn.close(), then the locked decrement
PoolValidate(w) ==
    /\ p_pc[w] \in {"validate", "wait_validate"}
    /\ IF ValidateConnection(p_conn[w])
         THEN /\ p_held' = [p_held EXCEPT ![w] = p_conn[w]]
              /\ p_conn' = [p_conn EXCEPT ![w] = NoConn]
              /\ p_pc' = [p_pc EXCEPT ![w] = "out"]
              /\ UNCHANGED alive
         ELSE /\ alive' = alive \ {p_conn[w]}
              /\ p_conn' = [p_conn EXCEPT ![w] = NoConn]
              /\ p_pc' = [p_pc EXCEPT ![w] =
                    IF p_pc[w] = "validate" THEN "discard" ELSE "wait_discard"]
              /\ UNCHANGED p_held
    /\ UNCHANGED <<max_size, pool, current_count>>
    /\ UNCHANGED nonPoolVars

\* _discard_connection: with self.lock: if self.current_count > 0: self.current_count -= 1
PoolDiscard(w) ==
    /\ p_pc[w] \in {"discard", "wait_discard", "ret_discard"}
    /\ current_count' = IF current_count > 0 THEN current_count - 1 ELSE current_count
    /\ p_pc' = [p_pc EXCEPT ![w] =
          CASE p_pc[w] = "discard" -> "check_create"
            [] p_pc[w] = "wait_discard" -> "wait_incr"
            [] OTHER -> "out"]
    /\ UNCHANGED <<max_size, pool, alive, p_conn, p_held>>
    /\ UNCHANGED nonPoolVars

\* with self.lock: if self.current_count < self.max_size: current_count += 1; can_create = True
PoolCheckCreateMutant(w) ==
    /\ p_pc[w] = "check_create"
    /\ current_count' = current_count + 1
    /\ p_pc' = [p_pc EXCEPT ![w] = "factory"]
    /\ UNCHANGED <<max_size, pool, alive, p_conn, p_held>>
    /\ UNCHANGED nonPoolVars
PoolCheckCreate(w) ==
    /\ p_pc[w] = "check_create"
    /\ IF current_count < max_size
         THEN /\ current_count' = current_count + 1
              /\ p_pc' = [p_pc EXCEPT ![w] = "factory"]
         ELSE /\ p_pc' = [p_pc EXCEPT ![w] = "wait"]
              /\ UNCHANGED current_count
    /\ UNCHANGED <<max_size, pool, alive, p_conn, p_held>>
    /\ UNCHANGED nonPoolVars

\* return connection_factory()   (create path and replace-after-wait path)
PoolFactoryOk(w) ==
    /\ p_pc[w] \in {"factory", "wait_factory"}
    /\ p_held' = [p_held EXCEPT ![w] = FreshConn]
    /\ alive' = alive \cup {FreshConn}
    /\ p_pc' = [p_pc EXCEPT ![w] = "out"]
    /\ UNCHANGED <<max_size, pool, current_count, p_conn>>
    /\ UNCHANGED nonPoolVars

\* connection_factory() raises.  On the create path the handler takes the lock
\* and decrements; on the replace-after-wait path nothing catches it.
PoolFactoryFail(w) ==
    /\ p_pc[w] \in {"factory", "wait_factory"}
    /\ p_pc' = [p_pc EXCEPT ![w] = IF p_pc[w] = "factory" THEN "factory_undo" ELSE "out"]
    /\ UNCHANGED <<max_size, pool, current_count, alive, p_conn, p_held>>
    /\ UNCHANGED nonPoolVars

\* except Exception: with self.lock: self.current_count -= 1; raise
PoolFactoryUndo(w) ==
    /\ p_pc[w] = "factory_undo"
    /\ current_count' = current_count - 1
    /\ p_pc' = [p_pc EXCEPT ![w] = "out"]
    /\ UNCHANGED <<max_size, pool, alive, p_conn, p_held>>
    /\ UNCHANGED nonPoolVars

\* conn = self.pool.get(timeout=self.timeout): a connection arrives
PoolWaitGet(w) ==
    /\ p_pc[w] = "wait"
    /\ pool # <<>>
    /\ p_conn' = [p_conn EXCEPT ![w] = Head(pool)]
    /\ pool' = QueueAfterGet(pool)
    /\ p_pc' = [p_pc EXCEPT ![w] = "wait_validate"]
    /\ UNCHANGED <<max_size, current_count, alive, p_held>>
    /\ UNCHANGED nonPoolVars

\* ... or the timeout passes with the queue empty: Empty -> DatabaseError
PoolWaitTimeout(w) ==
    /\ p_pc[w] = "wait"
    /\ pool = <<>>
    /\ p_pc' = [p_pc EXCEPT ![w] = "out"]
    /\ UNCHANGED <<max_size, pool, current_count, alive, p_conn, p_held>>
    /\ UNCHANGED nonPoolVars

\* after the discard on the wait path: with self.lock: self.current_count += 1
PoolWaitIncr(w) ==
    /\ p_pc[w] = "wait_incr"
    /\ current_count' = current_count + 1
    /\ p_pc' = [p_pc EXCEPT ![w] = "wait_factory"]
    /\ UNCHANGED <<max_size, pool, alive, p_conn, p_held>>
    /\ UNCHANGED nonPoolVars

\* return_connection(conn): if not self._validate_connection(conn): discard; return
PoolCallReturn(w) ==
    /\ p_pc[w] = "out" /\ p_held[w] # NoConn
    /\ IF ValidateConnection(p_held[w])
         THEN /\ p_conn' = [p_conn EXCEPT ![w] = p_held[w]]
              /\ p_pc' = [p_pc EXCEPT ![w] = "ret_put"]
              /\ UNCHANGED alive
         ELSE /\ alive' = alive \ {p_held[w]}
              /\ p_pc' = [p_pc EXCEPT ![w] = "ret_discard"]
              /\ UNCHANGED p_conn
    /\ p_held' = [p_held EXCEPT ![w] = NoConn]
    /\ UNCHANGED <<max_size, pool, current_count>>
    /\ UNCHANGED nonPoolVars

\* conn.rollback(); self.pool.put_nowait(conn)   except: self._discard_connection(conn)
\* rollback raises on a connection that died meanwhile, put_nowait on a full Queue.
PoolReturnPut(w) ==
    /\ p_pc[w] = "ret_put"
    /\ IF p_conn[w] \in alive /\ Len(pool) < max_size
         THEN /\ pool' = Append(pool, p_conn[w])
              /\ p_pc' = [p_pc EXCEPT ![w] = "out"]
              /\ UNCHANGED alive
         ELSE /\ alive' = alive \ {p_conn[w]}
              /\ p_pc' = [p_pc EXCEPT ![w] = "ret_discard"]
              /\ UNCHANGED pool
    /\ p_conn' = [p_conn EXCEPT ![w] = NoConn]
    /\ UNCHANGED <<max_size, current_count, p_held>>
    /\ UNCHANGED nonPoolVars

\* The server or the network drops a connection: its next "SELECT 1" fails.
ConnDies(c) ==
    /\ c \in alive
    /\ alive' = alive \ {c}
    /\ UNCHANGED <<max_size, pool, current_count, p_pc, p_conn, p_held>>
    /\ UNCHANGED nonPoolVars

PoolNext ==
    \/ \E w \in PoolWorkers :
          \/ PoolCallGet(w)
          \/ PoolGetNowait(w)
          \/ PoolValidate(w)
          \/ PoolDiscard(w)
          \/ PoolCheckCreate(w)
          \/ PoolFactoryOk(w)
          \/ PoolFactoryFail(w)
          \/ PoolFactoryUndo(w)
          \/ PoolWaitGet(w)
          \/ PoolWaitTimeout(w)
          \/ PoolWaitIncr(w)
          \/ PoolCallReturn(w)
          \/ PoolReturnPut(w)
    \/ \E c \in ConnIds : ConnDies(c)


(***************************************************************************)
(* The circuit breaker and DbConnectionService.get_connection              *)
(***************************************************************************)
MAX_FAILURES == 5
RESET_TIMEOUT == 30

Acquirers == 1..NumAcquirers

Min(a, b) == IF a < b THEN a ELSE b

BreakerInit ==
    /\ failures = 0
    /\ last_failure_time = 0
    /\ is_open = FALSE
    /\ now = 0
    /\ b_pc = [w \in Acquirers |-> "out"]
    /\ b_res = [w \in Acquirers |-> "none"]
    /\ consec = 0
    /\ trial = {}

\* time.time() - _CIRCUIT_STATE["last_failure_time"] > RESET_TIMEOUT
CooldownElapsed == now - last_failure_time > RESET_TIMEOUT

\* self._check_circuit_breaker(), the first statement of get_connection
CheckCircuitBreaker(w) ==
    /\ b_pc[w] = "out"
    /\ IF is_open
         THEN IF CooldownElapsed
                THEN /\ is_open' = FALSE
                     /\ failures' = 0
                     /\ trial' = {w}
                     /\ b_pc' = [b_pc EXCEPT ![w] = "pool"]
                     /\ UNCHANGED b_res
                ELSE /\ b_res' = [b_res EXCEPT ![w] = "circuit_open"]
                     /\ UNCHANGED <<is_open, failures, trial, b_pc>>
         ELSE /\ b_pc' = [b_pc EXCEPT ![w] = "pool"]
              /\ UNCHANGED <<is_open, failures, trial, b_res>>
    /\ UNCHANGED <<last_failure_time, now, consec>>
    /\ UNCHANGED nonBreakerVars

\* pool.get_connection(connection_factory) gives a connection, an idle one or
\* one the factory made: the caller goes on to self._record_success()
PoolGaveConnection(w) ==
    /\ b_pc[w] = "pool"
    /\ b_pc' = [b_pc EXCEPT ![w] = "record_success"]
    /\ UNCHANGED <<failures, last_failure_time, is_open, now, b_res, consec, trial>>
    /\ UNCHANGED nonBreakerVars

\* pyodbc.connect (or a session SET) raises inside connection_factory: the
\* factory's handler calls self._record_failure() and re-raises
FactoryRaised(w) ==
    /\ b_pc[w] = "pool"
    /\ b_pc' = [b_pc EXCEPT ![w] = "record_failure"]
    /\ UNCHANGED <<failures, last_failure_time, is_open, now, b_res, consec, trial>>
    /\ UNCHANGED nonBreakerVars

\* the pool wait times out (DatabaseError) or the environment has no connection
\* configuration (ConfigurationError): nothing is recorded
PoolRaisedUnrecorded(w) ==
    /\ b_pc[w] = "pool"
    /\ b_pc' = [b_pc EXCEPT ![w] = "out"]
    /\ b_res' = [b_res EXCEPT ![w] = "exhausted"]
    /\ trial' = trial \ {w}
    /\ UNCHANGED <<failures, last_failure_time, is_open, now, consec>>
    /\ UNCHANGED nonBreakerVars

\* if _CIRCUIT_STATE["failures"] >= MAX_FAILURES: _CIRCUIT_STATE["is_open"] = True
RecordFailure(w) ==
    /\ b_pc[w] = "record_failure"
    /\ failures' = failures + 1
    /\ last_failure_time' = now
    /\ is_open' = IF failures + 1 >= MAX_FAILURES THEN TRUE ELSE is_open
    /\ b_pc' = [b_pc EXCEPT ![w] = "out"]
    /\ b_res' = [b_res EXCEPT ![w] = "connect_error"]
    /\ consec' = Min(consec + 1, MAX_FAILURES)
    /\ trial' = trial \ {w}
    /\ UNCHANGED now
    /\ UNCHANGED nonBreakerVars

\* with _CIRCUIT_LOCK: if _CIRCUIT_STATE["failures"] > 0: _CIRCUIT_STATE["failures"] = 0
RecordSuccess(w) ==
    /\ b_pc[w] = "record_success"
    /\ failures' = IF failures > 0 THEN 0 ELSE failures
    /\ b_pc' = [b_pc EXCEPT ![w] = "out"]
    /\ b_res' = [b_res EXCEPT ![w] = "conn"]
    /\ consec' = 0
    /\ trial' = trial \ {w}
    /\ UNCHANGED <<last_failure_time, is_open, now>>
    /\ UNCHANGED nonBreakerVars

\* The clock advances, by a second or by a whole cooldown.
Tick ==
    /\ \E d \in {1, RESET_TIMEOUT} :
          /\ now + d <= MaxTime
          /\ now' = now + d
    /\ UNCHANGED <<failures, last_failure_time, is_open, b_pc, b_res, consec, trial>>
    /\ UNCHANGED nonBreakerVars

BreakerNext ==
    \/ \E w \in Acquirers :
          \/ CheckCircuitBreaker(w)
          \/ PoolGaveConnection(w)
          \/ FactoryRaised(w)
          \/ PoolRaisedUnrecorded(w)
          \/ RecordFailure(w)
          \/ RecordSuccess(w)
    \/ Tick

(***************************************************************************)
(* ConcurrencyThrottler                                                    *)
(***************************************************************************)


\* d[k] = v on a dict
DictSet(d, k, v) == [x \in (DOMAIN d) \cup {k} |-> IF x = k THEN v ELSE d[x]]
\* del d[k]
DictDel(d, k) == [x \in (DOMAIN d) \ {k} |-> d[x]]
\* d.get(k, 0)
DictGet(d, k) == IF k \in DOMAIN d THEN d[k] ELSE 0

\* sum(d.values())
RECURSIVE SumValues(_)
SumValues(d) ==
    IF DOMAIN d = {} THEN 0
    ELSE LET k == CHOOSE x \in DOMAIN d : TRUE
         IN d[k] + SumValues(DictDel(d, k))

\* if env not in self.active_queries: self.active_queries[env] = {}
WithEnv(aq, env) == IF env \in DOMAIN aq THEN aq ELSE DictSet(aq, env, <<>>)

\* if total_queries >= self.max_concurrent_queries: raise
TotalLimitReachedMutant(total) == total > max_concurrent_queries
TotalLimitReached(total) == total >= max_concurrent_queries

\* if user_queries >= self.max_concurrent_queries_per_user: raise
UserLimitReachedMutant(n) == n > max_concurrent_queries_per_user
UserLimitReached(n) == n >= max_concurrent_queries_per_user

\* the slot is refused: TooManyConcurrentQueriesError
ThrottleRefuses(aq, env, user) ==
    \/ TotalLimitReached(SumValues(WithEnv(aq, env)[env]))
    \/ UserLimitReached(DictGet(WithEnv(aq, env)[env], user))

\* self.active_queries[env][user] = user_queries + 1
SlotTaken(aq, env, user) ==
    LET a == WithEnv(aq, env)
    IN DictSet(a, env, DictSet(a[env], user, DictGet(a[env], user) + 1))

\* self.active_queries[env][user] -= 1; if it is 0: del self.active_queries[env][user]
SlotReleased(aq, env, user) ==
    LET n == aq[env][user] - 1
    IN DictSet(aq, env, IF n = 0 THEN DictDel(aq[env], user) ELSE DictSet(aq[env], user, n))

(***************************************************************************)
(* Responses of execute_readonly                                           *)
(***************************************************************************)
Absent == -1

Resp(ok, err, risk, retry) ==
    [success |-> ok, error |-> err, risk_score |-> risk, retry_after_seconds |-> retry]

NoResponse == Resp(FALSE, "none", Absent, Absent)

(***************************************************************************)
(* SqlAnalyzer.validate_readonly                                           *)
(***************************************************************************)
\* What sqlglot.parse gives for a script: ParseError when it raises, else
\* the list of its statements; "none" is an empty statement or a comment,
\* "select_into" a SELECT (exp.Select) that holds an exp.Into.
ParseError == <<"parse_error">>
Scripts ==
    {ParseError}
        \cup UNION {[1..n -> {"none", "select", "select_into", "insert"}] : n \in 0..MaxStmts}

\* parsed = [p for p in parsed if p]
RECURSIVE DropNone(_)
DropNone(q) ==
    IF q = <<>> THEN <<>>
    ELSE IF Head(q) = "none" THEN DropNone(Tail(q))
    ELSE <<Head(q)>> \o DropNone(Tail(q))

\* isinstance(stmt, exp.Select)
IsSelect(stmt) == stmt \in {"select", "select_into"}
\* stmt.find(exp.Into)
HasInto(stmt) == stmt = "select_into"

\* validate_readonly: is_safe of the returned pair
ValidateReadonlyMutant(sql) ==
    IF sql = ParseError THEN FALSE
    ELSE LET parsed == DropNone(sql)
         IN /\ parsed # <<>>
            /\ IsSelect(parsed[1])
            /\ ~HasInto(parsed[1])
ValidateReadonly(sql) ==
    IF sql = ParseError THEN FALSE
    ELSE LET parsed == DropNone(sql)
         IN /\ parsed # <<>>
            /\ ~(Len(parsed) > 1)
            /\ IsSelect(parsed[1])
            /\ ~HasInto(parsed[1])

(***************************************************************************)
(* SqlAnalyzer.analyze and ReviewService.review                            *)
(***************************************************************************)
Finding(code, severity, category) ==
    [code |-> code, severity |-> severity, category |-> category]

\* the finding SqlAnalyzer.analyze appends for a rule (BPxxx: a best-practice
\* violation; SYN001: the syntax error result)
Rule(code) ==
    CASE code \in {"SEC001", "SEC002", "SEC005"} -> Finding(code, "CRITICAL", "SECURITY")
      [] code \in {"SEC003", "SEC004"} -> Finding(code, "HIGH", "SECURITY")
      [] code = "PERF001" -> Finding(code, "MEDIUM", "PERFORMANCE")
      [] code = "SYN001" -> Finding(code, "CRITICAL", "MAINTAINABILITY")
      [] OTHER -> Finding(code, "LOW", "BEST_PRACTICE")

\* config.safety.risk_weights: the weights analyze reads, at their defaults
DefaultWeights ==
    [no_where_clause |-> 100, cross_join |-> 80, dynamic_sql |-> 90, ddl_statement |-> 100]

\* the risk each rule adds to risk_score
RuleRiskMutant(weights, f) ==
    CASE f.code \in {"SEC001", "SEC005"} -> 100
      [] f.code = "SEC002" -> weights.no_where_clause
      [] f.code = "SEC003" -> weights.ddl_statement
      [] f.code = "SEC004" -> weights.dynamic_sql
      [] f.code = "PERF001" -> weights.cross_join
      [] f.category = "BEST_PRACTICE" -> 0 - 5
      [] OTHER -> 0
RuleRisk(weights, f) ==
    CASE f.code = "SEC001" -> 100
      [] f.code = "SEC002" -> weights.no_where_clause
      [] f.code = "SEC003" -> weights.ddl_statement
      [] f.code = "SEC004" -> weights.dynamic_sql
      [] f.code = "SEC005" -> 100
      [] f.code = "PERF001" -> weights.cross_join
      [] f.category = "BEST_PRACTICE" -> 5
      [] OTHER -> 0

\* risk_score as analyze accumulates it over the findings, before the cap
RECURSIVE SumRuleRisk(_, _)
SumRuleRisk(weights, fs) ==
    IF fs = {} THEN 0
    ELSE LET f == CHOOSE x \in fs : TRUE
         IN RuleRisk(weights, f) + SumRuleRisk(weights, fs \ {f})

\* status = "APPROVED"; if risk_score >= 80: "REJECTED"; elif risk_score >= 30: "WARNING"
StatusOfScore(risk_score) ==
    IF risk_score >= 80 THEN "REJECTED"
    ELSE IF risk_score >= 30 THEN "WARNING"
    ELSE "APPROVED"

SeverityPriority(severity) ==
    CASE severity = "CRITICAL" -> 4
      [] severity = "HIGH" -> 3
      [] severity = "MEDIUM" -> 2
      [] OTHER -> 1

\* _get_top_severity: the severity of highest priority, "LOW" with no finding
GetTopSeverity(fs) ==
    IF fs = {} THEN "LOW"
    ELSE LET top == CHOOSE f \in fs :
                \A g \in fs : SeverityPriority(g.severity) <= SeverityPriority(f.severity)
         IN top.severity

\* the ReviewResult analyze compiles from its findings
Analyze(weights, fs) ==
    LET risk_score == Min(SumRuleRisk(weights, fs), 100)
    IN [issues |-> fs,
        status |-> StatusOfScore(risk_score),
        risk_score |-> risk_score,
        top_severity |-> GetTopSeverity(fs)]

\* _create_syntax_error_result
SyntaxErrorResult ==
    [issues |-> {Rule("SYN001")}, status |-> "REJECTED", risk_score |-> 100,
     top_severity |-> "CRITICAL"]

\* review: if result.summary.status == "REJECTED" and top_severity == "CRITICAL": return
ReturnsEarlyMutant(result) == result.status = "REJECTED" /\ result.issues = {}
ReturnsEarly(result) == result.status = "REJECTED" /\ result.top_severity = "CRITICAL"

\* _finalize_review: the risk a PLAN or META finding adds
PlanRisk(f) ==
    IF f.code \in {"PLAN001", "META001"}
      THEN (IF f.severity = "HIGH" THEN 15 ELSE IF f.severity = "MEDIUM" THEN 5 ELSE 0)
      ELSE 0

RECURSIVE SumPlanRisk(_)
SumPlanRisk(fs) ==
    IF fs = {} THEN 0
    ELSE LET f == CHOOSE x \in fs : TRUE
         IN PlanRisk(f) + SumPlanRisk(fs \ {f})

FinalizeReviewMutant(result) ==
    [result EXCEPT !.risk_score = Min(100, result.risk_score + SumPlanRisk(result.issues))]
FinalizeReview(result) ==
    LET risk_score == Min(100, result.risk_score + SumPlanRisk(result.issues))
    IN [result EXCEPT
          !.risk_score = risk_score,
          !.status = IF risk_score >= 80 THEN "REJECTED"
                     ELSE IF risk_score >= 30 THEN "WARNING"
                     ELSE @]

\* execute_readonly: if severity in ["CRITICAL", "HIGH"] and category != "BEST_PRACTICE"
IsBlockingMutant(f) == f.severity \in {"CRITICAL"} /\ f.category # "BEST_PRACTICE"
IsBlocking(f) == f.severity \in {"CRITICAL", "HIGH"} /\ f.category # "BEST_PRACTICE"

\* the entry appended when the summary is REJECTED with top_severity CRITICAL
\* and no finding was collected
RejectedBySummary(result) ==
    [reason |-> "Query rejected by security review", status |-> result.status,
     risk_score |-> result.risk_score, top_severity |-> result.top_severity]

\* blocking_violations as execute_readonly collects it from the review result
BlockingViolationsMutant(result) ==
    LET found == {f \in result.issues : IsBlocking(f)}
    IN IF result.status = "REJECTED" /\ found = {}
         THEN {RejectedBySummary(result)}
         ELSE found
BlockingViolations(result) ==
    LET found == {f \in result.issues : IsBlocking(f)}
    IN IF ReturnsEarly(result) /\ found = {}
         THEN {RejectedBySummary(result)}
         ELSE found

\* best_practice_warnings: elif category == "BEST_PRACTICE"
BestPracticeWarnings(result) ==
    {f \in result.issues : ~IsBlocking(f) /\ f.category = "BEST_PRACTICE"}

\* What analyze can find in a query validate_readonly accepted (one SELECT):
\* a linked server, a cross join, a best-practice violation; or its own parse
\* of the (possibly paginated) text fails.
AstResults ==
    {Analyze(DefaultWeights, fs) : fs \in SUBSET {Rule("SEC005"), Rule("PERF001"), Rule("BP001")}}
        \cup {SyntaxErrorResult}
\* the findings _add_execution_plan_findings appends: HIGH when the plan
\* insight mentions a Scan or a Lookup, MEDIUM otherwise
PlanFindings ==
    {Finding("PLAN001", "HIGH", "PERFORMANCE"), Finding("PLAN001", "MEDIUM", "PERFORMANCE")}

(***************************************************************************)
(* ExecutionService.execute_readonly                                       *)
(***************************************************************************)
NoSql == <<"unread">>
\* no gate has read anything yet
NoInput == [gate |-> "none"]
\* a returned dict with no further key
NoExtra == [k \in {} |-> {}]
\* Layer 3 not reached yet
NoLimits == [read |-> FALSE, enable_nolock_hint |-> FALSE]
\* query and final_query before Layer 6: nothing went to cursor.execute; its
\* top-level OFFSET and FETCH NEXT clauses (Absent: no such clause)
NotSent == [sent |-> FALSE, nolock |-> FALSE, offset |-> Absent, fetch |-> Absent]

\* an optional int argument: None, or a value
PyNone == [none |-> TRUE, value |-> 0]
PyInt(n) == [none |-> FALSE, value |-> n]
\* maxdop and max_grant_percent as configured (SafetyConfig defaults 1 and 10)
\* the bound of page_size in the validation of the arguments
MaxPageSize == 1000
PageSizeArgs == {PyNone, PyInt(0), PyInt(1), PyInt(MaxPageSize + 1)}
PageArgs == {PyNone, PyInt(0), PyInt(2)}
NoPage == [page_size |-> PyNone, page |-> PyNone]

\* execute_readonly, "Validate pagination parameters": some error is returned
PaginationError(page_size, page) ==
    /\ ~page_size.none \/ ~page.none
    /\ \/ page_size.none \/ page.none
       \/ page_size.value < 1 \/ page_size.value > MaxPageSize
       \/ page.value < 1

\* The SELECT that passed validate_readonly, as _apply_pagination sees it:
\* whether it has an ORDER BY, its own top-level OFFSET and FETCH (Absent:
\* none), and whether a subquery holds an OFFSET or FETCH (find() walks the
\* whole tree).
Selects ==
    {[order |-> o, offset |-> Absent, fetch |-> Absent, inner |-> i] : o, i \in BOOLEAN}
        \cup {[order |-> TRUE, offset |-> 0, fetch |-> 2, inner |-> FALSE]}

\* ExecutionService._apply_pagination; raises: sqlglot raised while parsing
\* or generating, and the handler returns the query as it was
ApplyPagination(select, page_size, page, raises) ==
    IF raises THEN select
    ELSE IF select.offset # Absent \/ select.fetch # Absent \/ select.inner THEN select
    ELSE [select EXCEPT !.order = TRUE,
                        !.offset = (page - 1) * page_size,
                        !.fetch = page_size]

CallsInit(n) ==
    /\ e_pc = [c \in 1..n |-> "idle"]
    /\ e_env = [c \in 1..n |-> "Int"]
    /\ e_user = [c \in 1..n |-> "alice"]
    /\ e_parsed = [c \in 1..n |-> NoSql]
    /\ acquired = [c \in 1..n |-> FALSE]
    /\ response = [c \in 1..n |-> NoResponse]
    /\ e_stage = [c \in 1..n |-> "none"]
    /\ e_conn = [c \in 1..n |-> FALSE]
    /\ e_dbres = [c \in 1..n |-> "none"]
    /\ e_rel = [c \in 1..n |-> 0]
    /\ e_out = [c \in 1..n |-> 0]
    /\ e_db = [c \in 1..n |-> FALSE]
    /\ e_in = [c \in 1..n |-> NoInput]
    /\ e_extra = [c \in 1..n |-> NoExtra]
    /\ e_limits = [c \in 1..n |-> NoLimits]
    /\ e_page = [c \in 1..n |-> NoPage]
    /\ e_sent = [c \in 1..n |-> NotSent]

ThrottleInit ==
    /\ max_concurrent_queries \in 1..MaxLimit
    /\ max_concurrent_queries_per_user \in 1..MaxLimit
    /\ active_queries = <<>>

ExecRest ==
    /\ max_concurrent_queries = 1
    /\ max_concurrent_queries_per_user = 1
    /\ active_queries = <<>>
    /\ CallsInit(1)

Calls == DOMAIN e_pc

\* the call ends: its response is fixed and control leaves the with-block
Leave(c, r) ==
    /\ response' = [response EXCEPT ![c] = r]
    /\ e_pc' = [e_pc EXCEPT ![c] = "release"]

\* execute_readonly is called.  The pagination parameters are checked first
\* (an error returns before the throttle); then ConcurrencyThrottler.acquire
\* runs its locked block: refuse (TooManyConcurrentQueriesError, caught by
\* execute_readonly) or take the slot.
Enter(c) ==
    /\ e_pc[c] = "idle"
    /\ \E env \in {"Int", "Prd"}, user \in {"alice", "bob"},
          page_size \in PageSizeArgs, page \in PageArgs :
          /\ e_env' = [e_env EXCEPT ![c] = env]
          /\ e_user' = [e_user EXCEPT ![c] = user]
          /\ IF PaginationError(page_size, page)
               THEN /\ response' = [response EXCEPT ![c] = Resp(FALSE, "pagination", Absent, Absent)]
                    /\ e_pc' = [e_pc EXCEPT ![c] = "done"]
                    /\ UNCHANGED <<active_queries, acquired>>
               ELSE IF ThrottleRefuses(active_queries, env, user)
               THEN /\ active_queries' = WithEnv(active_queries, env)
                    /\ response' = [response EXCEPT ![c] = Resp(FALSE, "too_many_concurrent", Absent, 5)]
                    /\ e_pc' = [e_pc EXCEPT ![c] = "done"]
                    /\ UNCHANGED acquired
               ELSE /\ active_queries' = SlotTaken(active_queries, env, user)
                    /\ acquired' = [acquired EXCEPT ![c] = TRUE]
                    /\ e_pc' = [e_pc EXCEPT ![c] = "validate"]
                    /\ UNCHANGED response
    /\ UNCHANGED <<max_concurrent_queries, max_concurrent_queries_per_user,
                   e_parsed, e_stage, e_conn, e_dbres, e_rel, e_out, e_db>>
    /\ UNCHANGED <<nonExecVars, gateVars>>

\* Layer 2: is_safe, error = self.analyzer.validate_readonly(query)
\* continues: the guard `if not is_safe: return {...}`
Validate(c) ==
    /\ e_pc[c] = "validate"
    /\ \E sql \in Scripts :
          /\ e_parsed' = [e_parsed EXCEPT ![c] = IF sql = ParseError THEN sql ELSE DropNone(sql)]
          /\ IF ValidateReadonly(sql)
               THEN /\ e_pc' = [e_pc EXCEPT ![c] = "paginate"]
                    /\ UNCHANGED response
               ELSE Leave(c, Resp(FALSE, "security_violation", 100, Absent))
    /\ UNCHANGED <<throttleVars, e_env, e_user, acquired, e_stage, e_conn, e_dbres,
                   e_rel, e_out, e_db>>
    /\ UNCHANGED <<nonExecVars, gateVars>>

\* if page_size is not None and page is not None:
\*     query = self._apply_pagination(query, page_size, page)
\* The arguments passed the check at the head of execute_readonly; from
\* here on the call keeps them, and the paging clauses of its query.
Paginate(c) ==
    /\ e_pc[c] = "paginate"
    /\ \E page_size \in PageSizeArgs, page \in PageArgs, select \in Selects, raises \in BOOLEAN :
          /\ ~PaginationError(page_size, page)
          /\ e_page' = [e_page EXCEPT ![c] = [page_size |-> page_size, page |-> page]]
          /\ LET query == IF ~page_size.none /\ ~page.none
                            THEN ApplyPagination(select, page_size.value, page.value, raises)
                            ELSE select
             IN e_sent' = [e_sent EXCEPT ![c].offset = query.offset, ![c].fetch = query.fetch]
    /\ e_pc' = [e_pc EXCEPT ![c] = "allowlist"]
    /\ UNCHANGED <<throttleVars, e_env, e_user, e_parsed, acquired, response, e_stage, e_conn,
                   e_dbres, e_rel, e_out, e_db>>
    /\ UNCHANGED <<nonExecVars, e_in, e_extra, e_limits>>

\* str.lower() on the database names in use
Lower(db) ==
    CASE db = "SalesDB" -> "salesdb"
      [] db = "SALESDB" -> "salesdb"
      [] db = "HR" -> "hr"
      [] OTHER -> db

\* self.config.database.connection_components.get(target_env): absent when the
\* environment is configured by a legacy connection string, else its database
ConnectionComponents ==
    {[present |-> FALSE, database |-> ""],
     [present |-> TRUE, database |-> ""],
     [present |-> TRUE, database |-> "SALESDB"],
     [present |-> TRUE, database |-> "hr"]}

\* target_database = database; if not target_database and target_env in
\* connection_components: target_database = connection_components[env].database
TargetDatabase(database, component) ==
    IF database = "" /\ component.present THEN component.database ELSE database

\* the three nested ifs of Layer 2.1 that lead to the rejection
DatabaseRejected(allowed_databases, target_database) ==
    /\ allowed_databases # << >>
    /\ target_database # ""
    /\ Lower(target_database) \notin {Lower(allowed_databases[i]) : i \in DOMAIN allowed_databases}

\* Layer 2.1: the allow-list of databases.  The gate reads the configuration
\* and the argument,
AllowList(c) ==
    /\ e_pc[c] = "allowlist"
    \* self.config.safety.allowed_databases (the empty list allows all) and the
    \* database argument ("" when it is not given: None and "" are both falsy)
    /\ \E allowed_databases \in {<< >>, <<"SalesDB">>}, database \in {"", "salesdb", "HR"},
          component \in ConnectionComponents :
          e_in' = [e_in EXCEPT ![c] = [gate |-> "allowlist",
                                       allowed_databases |-> allowed_databases,
                                       database |-> database,
                                       component |-> component]]
    /\ e_pc' = [e_pc EXCEPT ![c] = "allowlist_check"]
    /\ UNCHANGED <<throttleVars, e_env, e_user, e_parsed, acquired, response, e_stage, e_conn,
                   e_dbres, e_rel, e_out, e_db>>
    /\ UNCHANGED <<nonExecVars, e_extra, e_limits, e_page, e_sent>>

\* then rejects, or lets the call on to the review.
AllowListDecide(c) ==
    /\ e_pc[c] = "allowlist_check"
    /\ LET target_database == TargetDatabase(e_in[c].database, e_in[c].component)
       IN IF DatabaseRejected(e_in[c].allowed_databases, target_database)
            THEN Leave(c, Resp(FALSE, "database_not_allowed", 100, Absent))
            ELSE /\ e_pc' = [e_pc EXCEPT ![c] = "review"]
                 /\ UNCHANGED response
    /\ e_in' = [e_in EXCEPT ![c] = NoInput]
    /\ UNCHANGED <<throttleVars, e_env, e_user, e_parsed, acquired, e_stage, e_conn, e_dbres,
                   e_rel, e_out, e_db>>
    /\ UNCHANGED <<nonExecVars, e_extra, e_limits, e_page, e_sent>>

\* Layer 2.5: self.review_service.review(...).  The AST stage is local: it
\* raises (caught by execute_readonly: the call goes on unreviewed), or gives a
\* result.  A REJECTED result with top_severity CRITICAL is returned at once,
\* before any plan; otherwise the review goes on to get_execution_plan, which
\* runs execute_query.
ReviewStartMutant(c) ==
    /\ e_pc[c] = "review"
    /\ \E raises \in BOOLEAN, result \in AstResults :
          IF raises
            THEN /\ Leave(c, Resp(FALSE, "execution_error", Absent, Absent))
                 /\ UNCHANGED <<e_stage, e_in>>
            ELSE /\ e_in' = [e_in EXCEPT ![c] = [gate |-> "review", result |-> result]]
                 /\ UNCHANGED response
                 /\ IF ReturnsEarly(result)
                      THEN /\ e_pc' = [e_pc EXCEPT ![c] = "review_done"]
                           /\ UNCHANGED e_stage
                      ELSE /\ e_pc' = [e_pc EXCEPT ![c] = "db_get"]
                           /\ e_stage' = [e_stage EXCEPT ![c] = "review"]
    /\ UNCHANGED <<throttleVars, e_env, e_user, e_parsed, acquired, e_conn, e_dbres,
                   e_rel, e_out, e_db>>
    /\ UNCHANGED <<nonExecVars, e_extra, e_limits, e_page, e_sent>>
ReviewStart(c) ==
    /\ e_pc[c] = "review"
    /\ \E raises \in BOOLEAN, result \in AstResults :
          IF raises
            THEN /\ e_pc' = [e_pc EXCEPT ![c] = "cost"]
                 /\ UNCHANGED <<e_stage, e_in>>
            ELSE /\ e_in' = [e_in EXCEPT ![c] = [gate |-> "review", result |-> result]]
                 /\ IF ReturnsEarly(result)
                      THEN /\ e_pc' = [e_pc EXCEPT ![c] = "review_done"]
                           /\ UNCHANGED e_stage
                      ELSE /\ e_pc' = [e_pc EXCEPT ![c] = "db_get"]
                           /\ e_stage' = [e_stage EXCEPT ![c] = "review"]
    /\ UNCHANGED <<throttleVars, e_env, e_user, e_parsed, acquired, response, e_conn, e_dbres,
                   e_rel, e_out, e_db>>
    /\ UNCHANGED <<nonExecVars, e_extra, e_limits, e_page, e_sent>>

\* DbConnectionService.execute_query: conn = self.get_connection(env, db), after
\* the connection string is resolved; either may raise, and then conn is None.
DbGetConnection(c) ==
    /\ e_pc[c] = "db_get"
    /\ \E got \in BOOLEAN :
          IF got
            THEN /\ e_conn' = [e_conn EXCEPT ![c] = TRUE]
                 /\ e_out' = [e_out EXCEPT ![c] = @ + 1]
                 /\ e_db' = [e_db EXCEPT ![c] = TRUE]
                 /\ e_pc' = [e_pc EXCEPT ![c] = "db_run"]
                 /\ UNCHANGED e_dbres
            ELSE /\ e_dbres' = [e_dbres EXCEPT ![c] = "error"]
                 /\ e_pc' = [e_pc EXCEPT ![c] = "db_finally"]
                 /\ UNCHANGED <<e_conn, e_out, e_db>>
    /\ UNCHANGED <<throttleVars, e_env, e_user, e_parsed, acquired, response, e_stage, e_rel>>
    /\ UNCHANGED <<nonExecVars, gateVars>>

\* A result set as the cursor yields it, each row standing for its
\* row_size_estimate (the sum over its columns: the UTF-8 length of a str,
\* 16 for any other value)
Streams == UNION {[1..n -> {1, 3}] : n \in 0..MaxStream}

\* fetch_strategy, `for row in results`: from row i of the batch on
RECURSIVE ForRowInResults(_, _, _, _, _, _)
ForRowInResults(results, i, rows, current_payload_size, max_rows, max_payload_bytes) ==
    IF i > Len(results)
      THEN [raised |-> FALSE, rows |-> rows, current_payload_size |-> current_payload_size]
      ELSE LET row_size_estimate == results[i]
               size == current_payload_size + row_size_estimate + row_size_estimate
           IN IF size > max_payload_bytes
                THEN [raised |-> TRUE, rows |-> rows, current_payload_size |-> size]
                ELSE IF Len(Append(rows, results[i])) >= max_rows
                THEN [raised |-> FALSE, rows |-> Append(rows, results[i]),
                      current_payload_size |-> size]
                ELSE ForRowInResults(results, i + 1, Append(rows, results[i]), size,
                                     max_rows, max_payload_bytes)

\* fetch_strategy, `while True: results = cursor.fetchmany(batch_size)`, with
\* the cursor at row pos of the stream
RECURSIVE WhileFetchMany(_, _, _, _, _, _)
WhileFetchMany(stream, pos, rows, current_payload_size, max_rows, max_payload_bytes) ==
    LET results == SubSeq(stream, pos, Min(pos + BatchSize - 1, Len(stream)))
    IN IF results = << >>
         THEN [raised |-> FALSE, rows |-> rows, current_payload_size |-> current_payload_size]
         ELSE LET batch == ForRowInResults(results, 1, rows, current_payload_size,
                                           max_rows, max_payload_bytes)
              IN IF batch.raised \/ Len(batch.rows) >= max_rows
                   THEN batch
                   ELSE WhileFetchMany(stream, pos + BatchSize, batch.rows,
                                       batch.current_payload_size, max_rows, max_payload_bytes)

\* fetch_strategy(cursor, connection): the rows it returns, or DatabaseError
FetchStrategy(stream, max_rows, max_payload_mb) ==
    WhileFetchMany(stream, 1, << >>, 0, max_rows, max_payload_mb * BytesPerMb)

\* cursor.execute(query) and the fetch method: the result, or an exception
\* (a driver error, a timeout, the payload cap of fetch_strategy).  Layer 6
\* passes fetch_strategy, which closes over max_rows (read at Layer 3) and
\* reads max_payload_size_mb; the configuration does not change during a
\* call, so the two are drawn where they are used.
DbRun(c) ==
    /\ e_pc[c] = "db_run"
    /\ e_db' = [e_db EXCEPT ![c] = TRUE]
    /\ e_sent' = [e_sent EXCEPT ![c].sent = @ \/ e_stage[c] = "exec"]
    /\ \E driver_ok \in BOOLEAN, stream \in Streams, max_rows \in 0..MaxRowsConfigured,
          max_payload_size_mb \in 0..MaxPayloadMb :
          \* FETCH NEXT n ROWS ONLY: the server yields at most n rows
          /\ (e_stage[c] = "exec" /\ e_sent[c].fetch # Absent) => Len(stream) <= e_sent[c].fetch
          /\ IF e_stage[c] = "exec"
            THEN LET fetched == FetchStrategy(stream, max_rows, max_payload_size_mb)
                 IN /\ driver_ok => e_in' = [e_in EXCEPT ![c] =
                                       [gate |-> "exec", stream |-> stream, max_rows |-> max_rows,
                                        max_payload_size_mb |-> max_payload_size_mb,
                                        fetched |-> fetched]]
                    /\ ~driver_ok => UNCHANGED e_in
                    /\ e_dbres' = [e_dbres EXCEPT ![c] =
                          IF driver_ok /\ ~fetched.raised THEN "ok" ELSE "error"]
            ELSE /\ e_dbres' = [e_dbres EXCEPT ![c] = IF driver_ok THEN "ok" ELSE "error"]
                 /\ UNCHANGED e_in
    /\ e_pc' = [e_pc EXCEPT ![c] = "db_finally"]
    /\ UNCHANGED <<throttleVars, e_env, e_user, e_parsed, acquired, response, e_stage, e_conn,
                   e_rel, e_out>>
    /\ UNCHANGED <<nonExecVars, e_extra, e_limits, e_page>>

\* finally: if conn and pool: pool.return_connection(conn)
FinallyReturnsMutant(conn, res) == conn /\ res = "ok"
FinallyReturns(conn, res) == conn

DbFinallyMutant(c) ==
    /\ e_pc[c] = "db_finally"
    /\ IF FinallyReturns(e_conn[c], e_dbres[c]) /\ e_stage[c] = "exec"
         THEN e_out' = [e_out EXCEPT ![c] = @ - 1]
         ELSE UNCHANGED e_out
    /\ e_conn' = [e_conn EXCEPT ![c] = FALSE]
    /\ e_pc' = [e_pc EXCEPT ![c] =
          CASE e_stage[c] = "review" -> "review_plan"
            [] e_stage[c] = "cost" -> "cost_done"
            [] OTHER -> "exec_done"]
    /\ e_stage' = [e_stage EXCEPT ![c] = "none"]
    /\ UNCHANGED <<throttleVars, e_env, e_user, e_parsed, acquired, response, e_dbres,
                   e_rel, e_db>>
    /\ UNCHANGED <<nonExecVars, gateVars>>
DbFinally(c) ==
    /\ e_pc[c] = "db_finally"
    /\ IF FinallyReturns(e_conn[c], e_dbres[c])
         THEN e_out' = [e_out EXCEPT ![c] = @ - 1]
         ELSE UNCHANGED e_out
    /\ e_conn' = [e_conn EXCEPT ![c] = FALSE]
    /\ e_pc' = [e_pc EXCEPT ![c] =
          CASE e_stage[c] = "review" -> "review_plan"
            [] e_stage[c] = "cost" -> "cost_done"
            [] OTHER -> "exec_done"]
    /\ e_stage' = [e_stage EXCEPT ![c] = "none"]
    /\ UNCHANGED <<throttleVars, e_env, e_user, e_parsed, acquired, response, e_dbres,
                   e_rel, e_db>>
    /\ UNCHANGED <<nonExecVars, gateVars>>

\* _add_execution_plan_findings, after get_execution_plan returned: with a
\* plan in hand, the insights of ExecutionPlanAnalyzer are appended as PLAN001
\* findings; without one (failure, empty plan) nothing is appended.
ReviewPlanFindings(c) ==
    /\ e_pc[c] = "review_plan"
    /\ \E plan_xml_present \in BOOLEAN, insights \in SUBSET PlanFindings :
          e_in' = [e_in EXCEPT ![c].result.issues =
                      IF e_dbres[c] = "ok" /\ plan_xml_present THEN @ \cup insights ELSE @]
    /\ e_pc' = [e_pc EXCEPT ![c] = "review_meta"]
    /\ e_dbres' = [e_dbres EXCEPT ![c] = "none"]
    /\ UNCHANGED <<throttleVars, e_env, e_user, e_parsed, acquired, response, e_stage, e_conn,
                   e_rel, e_out, e_db>>
    /\ UNCHANGED <<nonExecVars, e_extra, e_limits, e_page, e_sent>>

\* _add_metadata_findings: MetadataAnalyzer.analyze_metadata calls
\* self.db_service.get_connection(env=env, database=database); get_connection
\* has no parameter named database, so the call raises TypeError before the
\* breaker or the pool is reached.  No connection is acquired and no finding
\* is added; the handlers of analyze_metadata and _add_metadata_findings
\* swallow the error.  Then _finalize_review recomputes score and status.
ReviewMetadata(c) ==
    /\ e_pc[c] = "review_meta"
    /\ e_in' = [e_in EXCEPT ![c].result = FinalizeReview(@)]
    /\ e_pc' = [e_pc EXCEPT ![c] = "review_done"]
    /\ UNCHANGED <<throttleVars, e_env, e_user, e_parsed, acquired, response, e_stage, e_conn,
                   e_dbres, e_rel, e_out, e_db>>
    /\ UNCHANGED <<nonExecVars, e_extra, e_limits, e_page, e_sent>>

\* the blocking decision of execute_readonly on the review result: a
\* rejection carrying blocking_violations, review_summary and
\* best_practice_warnings, or on to the cost gate; then the locals
\* review_result and best_practice_warnings wait in e_extra for the response
ReviewDecide(c) ==
    /\ e_pc[c] = "review_done"
    /\ LET result == e_in[c].result
           blocking_violations == BlockingViolations(result)
       IN IF blocking_violations # {}
            THEN /\ Leave(c, Resp(FALSE, "review_blocked", Absent, Absent))
                 /\ e_extra' = [e_extra EXCEPT ![c] =
                       [blocking_violations |-> blocking_violations,
                        review_summary |-> [status |-> result.status,
                                            risk_score |-> result.risk_score],
                        best_practice_warnings |-> BestPracticeWarnings(result)]]
            ELSE /\ e_pc' = [e_pc EXCEPT ![c] = "cost"]
                 /\ e_extra' = [e_extra EXCEPT ![c] =
                       [review_summary |-> [status |-> result.status,
                                            risk_score |-> result.risk_score],
                        best_practice_warnings |-> BestPracticeWarnings(result)]]
                 /\ UNCHANGED response
    /\ e_in' = [e_in EXCEPT ![c] = NoInput]
    /\ UNCHANGED <<throttleVars, e_env, e_user, e_parsed, acquired, e_stage, e_conn, e_dbres,
                   e_rel, e_out, e_db>>
    /\ UNCHANGED <<nonExecVars, e_limits, e_page, e_sent>>

\* Layer 3: enable_nolock = get_env_setting(target_env, "enable_nolock_hint", False)
\* Layer 4: if self.config.safety.enable_cost_check: get_execution_plan(...)
CostStart(c) ==
    /\ e_pc[c] = "cost"
    /\ \E enable_nolock_hint \in BOOLEAN, enable_cost_check \in BOOLEAN :
          /\ e_limits' = [e_limits EXCEPT ![c] =
                            [read |-> TRUE, enable_nolock_hint |-> enable_nolock_hint]]
          /\ IF enable_cost_check
               THEN /\ e_pc' = [e_pc EXCEPT ![c] = "db_get"]
                    /\ e_stage' = [e_stage EXCEPT ![c] = "cost"]
               ELSE /\ e_pc' = [e_pc EXCEPT ![c] = "hints"]
                    /\ UNCHANGED e_stage
    /\ UNCHANGED <<throttleVars, e_env, e_user, e_parsed, acquired, response, e_conn, e_dbres,
                   e_rel, e_out, e_db>>
    /\ UNCHANGED <<nonExecVars, e_in, e_extra, e_page, e_sent>>

\* What fetch_plan can return as plan_xml: "" (no row), a blank or malformed
\* text, a plan whose StmtSimple carries StatementSubTreeCost = cost, a
\* StmtSimple whose cost does not parse as a float, or a plan without
\* StmtSimple whose RelOp nodes have cost as their highest
\* EstimatedTotalSubtreeCost.  Costs are in whole units.
Plan(kind, cost) == [kind |-> kind, cost |-> cost]
Plans ==
    {Plan(k, 0) : k \in {"empty", "blank", "malformed", "stmt_bad_cost"}}
        \cup {Plan(k, n) : k \in {"stmt", "relops"}, n \in 0..MaxCost}

\* QueryCostChecker._extract_cost_from_plan: 0.0 for an empty or blank text,
\* for ET.ParseError and for any other exception (a cost that float() refuses)
ExtractCostFromPlan(plan_xml) ==
    CASE plan_xml.kind \in {"empty", "blank"} -> 0
      [] plan_xml.kind \in {"malformed", "stmt_bad_cost"} -> 0
      [] OTHER -> plan_xml.cost

\* QueryCostChecker.check_query_cost: (is_allowed, estimated_cost)
CheckQueryCostMutant(plan_xml, threshold) ==
    [is_allowed |-> TRUE, estimated_cost |-> ExtractCostFromPlan(plan_xml)]
CheckQueryCost(plan_xml, threshold) ==
    LET cost == ExtractCostFromPlan(plan_xml)
    IN [is_allowed |-> ~(cost > threshold), estimated_cost |-> cost]

\* plan_result = self.get_execution_plan(query, env, database): success with
\* the plan text, or, when execute_query raised, success False
CostPlan(c) ==
    /\ e_pc[c] = "cost_done"
    \* cost_threshold: query_cost_threshold of the environment, else max_query_cost
    /\ \E plan_xml \in Plans, cost_threshold \in 1..(MaxCost - 1) :
          e_in' = [e_in EXCEPT ![c] =
                      [gate |-> "cost",
                       success |-> e_dbres[c] = "ok",
                       plan_xml |-> IF e_dbres[c] = "ok" THEN plan_xml ELSE Plan("empty", 0),
                       cost_threshold |-> cost_threshold]]
    /\ e_pc' = [e_pc EXCEPT ![c] = "cost_check"]
    /\ e_dbres' = [e_dbres EXCEPT ![c] = "none"]
    /\ UNCHANGED <<throttleVars, e_env, e_user, e_parsed, acquired, response, e_stage, e_conn,
                   e_rel, e_out, e_db>>
    /\ UNCHANGED <<nonExecVars, e_extra, e_limits, e_page, e_sent>>

\* if plan_result.get("success") and plan_result.get("plan_xml"):
\*     is_allowed, estimated_cost = cost_checker.check_query_cost(...)
\*     if not is_allowed: return {..., "estimated_cost", "threshold"}
CostDecide(c) ==
    /\ e_pc[c] = "cost_check"
    /\ LET plan_result == e_in[c]
           checked == CheckQueryCost(plan_result.plan_xml, plan_result.cost_threshold)
       IN IF plan_result.success /\ plan_result.plan_xml.kind # "empty" /\ ~checked.is_allowed
            THEN /\ Leave(c, Resp(FALSE, "cost_exceeded", Absent, Absent))
                 /\ e_extra' = [e_extra EXCEPT ![c] =
                       [estimated_cost |-> checked.estimated_cost,
                        threshold |-> plan_result.cost_threshold]]
            ELSE /\ e_pc' = [e_pc EXCEPT ![c] = "hints"]
                 /\ UNCHANGED <<response, e_extra>>
    /\ e_in' = [e_in EXCEPT ![c] = NoInput]
    /\ UNCHANGED <<throttleVars, e_env, e_user, e_parsed, acquired, e_stage, e_conn, e_dbres,
                   e_rel, e_out, e_db>>
    /\ UNCHANGED <<nonExecVars, e_limits, e_page, e_sent>>

\* NolockInjector.should_inject
ShouldInjectMutant(env, enable_nolock_hint) == enable_nolock_hint
ShouldInject(env, enable_nolock_hint) == enable_nolock_hint /\ env = "Prd"

\* NolockInjector.inject_nolock_hints: the statement with WITH (NOLOCK) on
\* every table, or, when parsing or rewriting raised, NolockInjectionError
\* (the handler re-raises; the query is never returned as it was).
InjectNolockHintsMutant(rewrites) == [raised |-> FALSE, nolock |-> rewrites]
InjectNolockHints(rewrites) == [raised |-> ~rewrites, nolock |-> rewrites]

\* Layers 5 and 5.5: final_query = query, then the hint rewrites; a failed
\* NOLOCK injection leaves through `except NolockInjectionError`.  The
\* resource hints never raise (inject_resource_hints returns its input on
\* error).  Then Layer 6 calls execute_query with final_query.
Hints(c) ==
    /\ e_pc[c] = "hints"
    /\ \E rewrites \in BOOLEAN :
          IF ShouldInject(e_env[c], e_limits[c].enable_nolock_hint)
            THEN LET injected == InjectNolockHints(rewrites)
                 IN IF injected.raised
                      THEN /\ Leave(c, Resp(FALSE, "security_enforcement_failed", 100, Absent))
                           /\ e_extra' = [e_extra EXCEPT ![c] = NoExtra]
                           /\ UNCHANGED <<e_stage, e_sent>>
                      ELSE /\ e_sent' = [e_sent EXCEPT ![c].nolock = injected.nolock]
                           /\ e_pc' = [e_pc EXCEPT ![c] = "db_get"]
                           /\ e_stage' = [e_stage EXCEPT ![c] = "exec"]
                           /\ UNCHANGED <<response, e_extra>>
            ELSE /\ e_pc' = [e_pc EXCEPT ![c] = "db_get"]
                 /\ e_stage' = [e_stage EXCEPT ![c] = "exec"]
                 /\ UNCHANGED <<response, e_extra, e_sent>>
    /\ UNCHANGED <<throttleVars, e_env, e_user, e_parsed, acquired, e_conn, e_dbres,
                   e_rel, e_out, e_db>>
    /\ UNCHANGED <<nonExecVars, e_in, e_limits, e_page>>

\* the dict of a successful call (execution_time_ms left out: no claim reads
\* it); review_summary = None when the review raised
SuccessKeys(c, result, max_rows) ==
    [data |-> result,
     row_count |-> Len(result),
     environment |-> e_env[c],
     limits_applied |-> [max_rows |-> max_rows,
                         nolock_enabled |-> e_limits[c].enable_nolock_hint],
     review_summary |-> IF e_extra[c] = NoExtra
                        THEN [status |-> "none", risk_score |-> Absent]
                        ELSE e_extra[c].review_summary,
     best_practice_warnings |-> IF e_extra[c] = NoExtra THEN {}
                                ELSE e_extra[c].best_practice_warnings]

\* "Add pagination metadata if pagination was applied":
\* if page_size is not None and page is not None: response["pagination"] = {...}
PaginationKey(page_size, page, result) ==
    IF ~page_size.none /\ ~page.none
      THEN "pagination" :> [page |-> page.value,
                            page_size |-> page_size.value,
                            rows_returned |-> Len(result),
                            offset |-> (page.value - 1) * page_size.value]
      ELSE NoExtra

\* execute_query returned the rows, or raised (except Exception: Execution error)
ExecFinish(c) ==
    /\ e_pc[c] = "exec_done"
    /\ IF e_dbres[c] = "ok"
         THEN /\ Leave(c, Resp(TRUE, "", Absent, Absent))
              /\ e_extra' = [e_extra EXCEPT ![c] =
                                SuccessKeys(c, e_in[c].fetched.rows, e_in[c].max_rows)
                                  @@ PaginationKey(e_page[c].page_size, e_page[c].page,
                                                   e_in[c].fetched.rows)]
         ELSE /\ Leave(c, Resp(FALSE, "execution_error", Absent, Absent))
              /\ e_extra' = [e_extra EXCEPT ![c] = NoExtra]
    /\ e_dbres' = [e_dbres EXCEPT ![c] = "none"]
    /\ e_in' = [e_in EXCEPT ![c] = NoInput]
    /\ UNCHANGED <<throttleVars, e_env, e_user, e_parsed, acquired, e_stage, e_conn,
                   e_rel, e_out, e_db>>
    /\ UNCHANGED <<nonExecVars, e_limits, e_page, e_sent>>

\* The body of the with-block as one step, for the throttle's own claims:
\* it runs to its return or to an exception.
BodyRuns(c) ==
    /\ e_pc[c] = "validate"
    /\ \E ok \in BOOLEAN :
          Leave(c, IF ok THEN Resp(TRUE, "", Absent, Absent)
                   ELSE Resp(FALSE, "execution_error", Absent, Absent))
    /\ UNCHANGED <<throttleVars, e_env, e_user, e_parsed, acquired, e_stage, e_conn, e_dbres,
                   e_rel, e_out, e_db>>
    /\ UNCHANGED <<nonExecVars, gateVars>>

\* finally: if acquired: with self.lock: release the slot
Release(c) ==
    /\ e_pc[c] = "release"
    /\ IF acquired[c]
         THEN /\ active_queries' = SlotReleased(active_queries, e_env[c], e_user[c])
              /\ e_rel' = [e_rel EXCEPT ![c] = @ + 1]
         ELSE UNCHANGED <<active_queries, e_rel>>
    /\ e_pc' = [e_pc EXCEPT ![c] = "done"]
    /\ UNCHANGED <<max_concurrent_queries, max_concurrent_queries_per_user,
                   e_env, e_user, e_parsed, acquired, response, e_stage, e_conn, e_dbres,
                   e_out, e_db>>
    /\ UNCHANGED <<nonExecVars, gateVars>>

\* The caller has its response; the worker is free for the next call.
Return(c) ==
    /\ e_pc[c] = "done"
    /\ e_pc' = [e_pc EXCEPT ![c] = "idle"]
    /\ e_env' = [e_env EXCEPT ![c] = "Int"]
    /\ e_user' = [e_user EXCEPT ![c] = "alice"]
    /\ e_parsed' = [e_parsed EXCEPT ![c] = NoSql]
    /\ acquired' = [acquired EXCEPT ![c] = FALSE]
    /\ response' = [response EXCEPT ![c] = NoResponse]
    /\ e_rel' = [e_rel EXCEPT ![c] = 0]
    /\ e_out' = [e_out EXCEPT ![c] = 0]
    /\ e_db' = [e_db EXCEPT ![c] = FALSE]
    /\ UNCHANGED <<throttleVars, e_stage, e_conn, e_dbres>>
    /\ e_in' = [e_in EXCEPT ![c] = NoInput]
    /\ e_extra' = [e_extra EXCEPT ![c] = NoExtra]
    /\ e_limits' = [e_limits EXCEPT ![c] = NoLimits]
    /\ e_page' = [e_page EXCEPT ![c] = NoPage]
    /\ e_sent' = [e_sent EXCEPT ![c] = NotSent]
    /\ UNCHANGED nonExecVars

\* The pipeline is followed one call at a time; calls meet only in the
\* throttle, whose contention ThrottleNext covers.
ExecNext ==
    \E c \in {1} :
        \/ Enter(c)
        \/ Validate(c)
        \/ Paginate(c)
        \/ AllowList(c)
        \/ AllowListDecide(c)
        \/ ReviewStart(c)
        \/ DbGetConnection(c)
        \/ DbRun(c)
        \/ DbFinally(c)
        \/ ReviewPlanFindings(c)
        \/ ReviewMetadata(c)
        \/ ReviewDecide(c)
        \/ CostStart(c)
        \/ CostPlan(c)
        \/ CostDecide(c)
        \/ Hints(c)
        \/ ExecFinish(c)
        \/ Release(c)
        \/ Return(c)

ThrottleNext ==
    \E c \in 1..NumThrottleCalls :
        \/ Enter(c)
        \/ BodyRuns(c)
        \/ Release(c)
        \/ Return(c)

(***************************************************************************)
(* The rewriters: NolockInjector.inject_nolock_hints,                      *)
(* ResourceControlInjector.inject_resource_hints and                       *)
(* ExecutionService._apply_pagination, as functions of a statement.        *)
(*                                                                         *)
(* A statement is followed by the parts the rewriters read and write:      *)
(*   tables     for each exp.Table, the names in its WITH (...) hint list  *)
(*   semicolon  the text ends in ';'                                       *)
(*   options    the OPTION clauses at the end of the text, in order; each  *)
(*              is a list of hints and is `nested` when it holds a ')'     *)
(*              before its last one (OPTIMIZE FOR (...)), which the        *)
(*              pattern of inject_resource_hints does not match            *)
(*   order, offset, fetch, inner   as in Selects                           *)
(*   breaks     sqlglot raises on this text                                *)
(***************************************************************************)

OptionHint(name, value, upper) == [name |-> name, value |-> value, upper |-> upper]
OptionClause(hints, nested) == [hints |-> hints, nested |-> nested]
OptionLists ==
    {<< >>,
     <<OptionClause(<<OptionHint("RECOMPILE", 0, FALSE)>>, FALSE)>>,
     <<OptionClause(<<OptionHint("MAXDOP", 4, FALSE)>>, FALSE)>>,
     <<OptionClause(<<OptionHint("MAXDOP", 1, TRUE),
                      OptionHint("MAX_GRANT_PERCENT", 10, TRUE)>>, FALSE)>>,
     <<OptionClause(<<OptionHint("OPTIMIZE FOR", 0, TRUE)>>, TRUE)>>}

Statements ==
    {[tables |-> t, semicolon |-> sc, options |-> o, breaks |-> b,
      order |-> q.order, offset |-> q.offset, fetch |-> q.fetch, inner |-> q.inner] :
        t \in UNION {[1..n -> {<< >>, <<"NOLOCK">>, <<"nolock">>, <<"INDEX">>}] :
                        n \in 0..MaxTables},
        sc \in BOOLEAN, o \in OptionLists, b \in BOOLEAN, q \in Selects}

\* expression.sql(dialect="tsql"): the generated text carries no trailing ';'
Generate(stmt) == [stmt EXCEPT !.semicolon = FALSE, !.breaks = FALSE]

\* str.upper() on a hint name
Upper(name) == IF name = "nolock" THEN "NOLOCK" ELSE name

\* inject_nolock_hints: has_nolock, over the hint list of one table
HasNolockMutant(hints) == FALSE
HasNolock(hints) == \E i \in DOMAIN hints : Upper(hints[i]) = "NOLOCK"

\* inject_nolock_hints: the rewritten statement, or NolockInjectionError.  The
\* body of `for table in parsed.find_all(exp.Table)`: a table that has NOLOCK
\* is left alone; else NOLOCK is appended to its first hint list, or a hint
\* list is made for it
NolockRewrite(stmt) ==
    IF stmt.breaks
      THEN [raised |-> TRUE, query |-> stmt]
      ELSE [raised |-> FALSE,
            query |-> Generate([stmt EXCEPT !.tables =
                                   [i \in DOMAIN stmt.tables |->
                                       IF HasNolock(stmt.tables[i]) THEN stmt.tables[i]
                                       ELSE Append(stmt.tables[i], "NOLOCK")]])]

\* inject_resource_hints: has_maxdop, has_max_grant
HasHint(hints, name) == \E i \in DOMAIN hints : hints[i].name = name

\* inject_resource_hints
InjectResourceHints(stmt, maxdop, max_grant_percent) ==
    LET n == Len(stmt.options)
        has_option == n > 0 /\ ~stmt.options[n].nested
        both == <<OptionHint("MAXDOP", maxdop, TRUE),
                  OptionHint("MAX_GRANT_PERCENT", max_grant_percent, TRUE)>>
    IN IF has_option
         THEN LET \* existing_hints, read from the upper-cased text
                  existing_hints == [i \in DOMAIN stmt.options[n].hints |->
                                        [stmt.options[n].hints[i] EXCEPT !.upper = TRUE]]
                  hints == (IF HasHint(existing_hints, "MAXDOP") THEN << >>
                            ELSE <<OptionHint("MAXDOP", maxdop, TRUE)>>)
                           \o (IF HasHint(existing_hints, "MAX_GRANT_PERCENT") THEN << >>
                               ELSE <<OptionHint("MAX_GRANT_PERCENT", max_grant_percent, TRUE)>>)
              IN IF hints # << >>
                   THEN [stmt EXCEPT !.semicolon = FALSE,
                                     !.options = Append(SubSeq(stmt.options, 1, n - 1),
                                                        OptionClause(existing_hints \o hints, FALSE))]
                   ELSE stmt
         ELSE [stmt EXCEPT !.semicolon = FALSE,
                           !.options = Append(stmt.options, OptionClause(both, FALSE))]

\* _apply_pagination on a statement: the query as it was, or the generated text
PaginationRewrite(stmt, page_size, page) ==
    LET select == ApplyPagination(stmt, page_size, page, stmt.breaks)
    IN IF select = stmt THEN stmt ELSE Generate(select)

Applied(rewriter, a, b) == [rewriter |-> rewriter, a |-> a, b |-> b]
Again(last) == IF r_last = last /\ r_times >= 1 THEN 2 ELSE 1

RewriteRest ==
    /\ r_stmt = [tables |-> << >>, semicolon |-> FALSE, options |-> << >>, breaks |-> FALSE,
                 order |-> FALSE, offset |-> Absent, fetch |-> Absent, inner |-> FALSE]
    /\ r_last = [rewriter |-> "none", a |-> 0, b |-> 0]
    /\ r_times = 0

RewriteInit ==
    /\ r_stmt \in Statements
    /\ r_last = [rewriter |-> "none", a |-> 0, b |-> 0]
    /\ r_times = 0

\* final_query = self.nolock_injector.inject_nolock_hints(query)
NolockStep ==
    /\ LET injected == NolockRewrite(r_stmt)
       IN IF injected.raised
            THEN /\ r_last' = Applied("nolock_raised", 0, 0)
                 /\ r_times' = 1
                 /\ UNCHANGED r_stmt
            ELSE /\ r_stmt' = injected.query
                 /\ r_last' = Applied("nolock", 0, 0)
                 /\ r_times' = Again(Applied("nolock", 0, 0))
    /\ UNCHANGED nonRewriteVars

\* final_query = self.resource_control_injector.inject_resource_hints(...)
ResourceStep ==
    /\ \E maxdop \in {1, 2}, max_grant_percent \in {10, 25} :
          /\ r_stmt' = InjectResourceHints(r_stmt, maxdop, max_grant_percent)
          /\ r_last' = Applied("resource", maxdop, max_grant_percent)
          /\ r_times' = Again(Applied("resource", maxdop, max_grant_percent))
    /\ UNCHANGED nonRewriteVars

\* query = self._apply_pagination(query, page_size, page)
PaginationStep ==
    /\ \E page_size \in PageSizeArgs, page \in PageArgs :
          /\ ~page_size.none /\ ~page.none
          /\ ~PaginationError(page_size, page)
          /\ r_stmt' = PaginationRewrite(r_stmt, page_size.value, page.value)
          /\ r_last' = Applied("pagination", page_size.value, page.value)
          /\ r_times' = Again(Applied("pagination", page_size.value, page.value))
    /\ UNCHANGED nonRewriteVars

RewriteNext ==
    \/ NolockStep
    \/ ResourceStep
    \/ PaginationStep

(***************************************************************************)
(* ReviewService.review as a function of the script and the configured     *)
(* risk weights.  A script is followed by what the rules of analyze see:   *)
(* the kind of its statement, a linked-server reference, a cross join, the *)
(* best-practice violations; or sqlglot.parse raises on it.                *)
(***************************************************************************)
ReviewedScripts ==
    [kind : {"select", "update_where", "delete_no_where", "create", "exec"},
     linked_server : BOOLEAN, cross_join : BOOLEAN,
     bp_violations : SUBSET {Rule("BP001"), Rule("BP002")}, parses : {TRUE}]
        \cup [kind : {"select"}, linked_server : {FALSE}, cross_join : {FALSE},
              bp_violations : {{}}, parses : {FALSE}]

\* RiskWeights as configured: the defaults, and lower weights
WeightChoices ==
    [no_where_clause : {0, 100}, cross_join : {25, 30, 80}, dynamic_sql : {79, 90},
     ddl_statement : {0, 100}]

\* the findings analyze appends for one statement
FindingsOf(sql) ==
    (IF sql.kind \in {"update_where", "delete_no_where"} THEN {Rule("SEC001")} ELSE {})
      \cup (IF sql.kind = "delete_no_where" THEN {Rule("SEC002")} ELSE {})
      \cup (IF sql.kind = "create" THEN {Rule("SEC003")} ELSE {})
      \cup (IF sql.kind = "exec" THEN {Rule("SEC004")} ELSE {})
      \cup (IF sql.linked_server THEN {Rule("SEC005")} ELSE {})
      \cup (IF sql.cross_join THEN {Rule("PERF001")} ELSE {})
      \cup sql.bp_violations

NoResult == [issues |-> {}, status |-> "none", risk_score |-> 0, top_severity |-> "none"]

\* SafetyChecks(is_readonly=not (has_write_ops or has_ddl), ...) of analyze;
\* all three False in _create_syntax_error_result
SafetyChecks(sql) ==
    LET has_write_ops == sql.parses /\ sql.kind \in {"update_where", "delete_no_where"}
        has_ddl == sql.parses /\ sql.kind = "create"
    IN [is_readonly |-> sql.parses /\ ~(has_write_ops \/ has_ddl),
        has_write_ops |-> has_write_ops,
        has_ddl |-> has_ddl]

ReviewRest ==
    /\ v_sql = [kind |-> "select", linked_server |-> FALSE, cross_join |-> FALSE,
                bp_violations |-> {}, parses |-> TRUE]
    /\ v_weights = DefaultWeights
    /\ v_stage = "called"
    /\ v_result = NoResult
    /\ v_safety = [is_readonly |-> FALSE, has_write_ops |-> FALSE, has_ddl |-> FALSE]
    /\ v_insights = [execution_plan_available |-> FALSE, db_called |-> FALSE]

ReviewInit ==
    /\ v_sql \in ReviewedScripts
    /\ v_weights \in WeightChoices
    /\ v_stage = "called"
    /\ v_result = NoResult
    /\ v_safety = [is_readonly |-> FALSE, has_write_ops |-> FALSE, has_ddl |-> FALSE]
    /\ v_insights = [execution_plan_available |-> FALSE, db_called |-> FALSE]

\* result = self.sql_analyzer.analyze(sql)
AnalyzeStep ==
    /\ v_stage = "called"
    /\ v_result' = IF v_sql.parses THEN Analyze(v_weights, FindingsOf(v_sql))
                   ELSE SyntaxErrorResult
    /\ v_safety' = SafetyChecks(v_sql)
    /\ v_stage' = "ast"
    /\ UNCHANGED <<v_sql, v_weights, v_insights, nonReviewVars>>

\* if status == "REJECTED" and top_severity == "CRITICAL": return result
ReviewReturnsEarly ==
    /\ v_stage = "ast"
    /\ ReturnsEarly(v_result)
    /\ v_stage' = "returned"
    /\ UNCHANGED <<v_sql, v_weights, v_result, v_safety, v_insights, nonReviewVars>>

\* _add_execution_plan_findings: skipped without an execution service; else
\* get_execution_plan is called, and when it gives a plan its insights are
\* appended and execution_plan_available is set.  _add_metadata_findings:
\* MetadataAnalyzer asks for a connection of its own.
AddPlanFindings ==
    /\ v_stage = "ast"
    /\ ~ReturnsEarly(v_result)
    /\ \E has_service \in BOOLEAN, plan_given \in BOOLEAN, insights \in SUBSET PlanFindings :
          /\ insights # {} => (has_service /\ plan_given)
          /\ v_result' = [v_result EXCEPT !.issues = @ \cup insights]
          /\ v_insights' = [execution_plan_available |-> has_service /\ plan_given,
                            db_called |-> TRUE]
    /\ v_stage' = "merged"
    /\ UNCHANGED <<v_sql, v_weights, v_safety, nonReviewVars>>

\* self._finalize_review(result); return result
FinalizeStep ==
    /\ v_stage = "merged"
    /\ v_result' = FinalizeReview(v_result)
    /\ v_stage' = "returned"
    /\ UNCHANGED <<v_sql, v_weights, v_safety, v_insights, nonReviewVars>>

ReviewNext ==
    \/ AnalyzeStep
    \/ ReviewReturnsEarly
    \/ AddPlanFindings
    \/ FinalizeStep

(***************************************************************************)
(* Specifications: each part of the program with the other parts at rest.  *)
(***************************************************************************)
PoolRest == PoolInit /\ max_size = 1

InitPool == PoolInit /\ max_size \in 1..MaxPoolSize /\ BreakerInit /\ ExecRest /\ RewriteRest /\ ReviewRest
SpecPool == InitPool /\ [][PoolNext]_vars
\* Queue.get(timeout=...) returns or raises Empty: a worker does not stay in
\* the wait for ever
SpecPoolFair ==
    SpecPool /\ \A w \in PoolWorkers : WF_vars(PoolWaitGet(w) \/ PoolWaitTimeout(w))

InitBreaker == PoolRest /\ BreakerInit /\ ExecRest /\ RewriteRest /\ ReviewRest
SpecBreaker == InitBreaker /\ [][BreakerNext]_vars

InitThrottle ==
    /\ PoolRest /\ BreakerInit /\ ThrottleInit /\ CallsInit(NumThrottleCalls)
    /\ RewriteRest /\ ReviewRest
SpecThrottle == InitThrottle /\ [][ThrottleNext]_vars

Init ==
    /\ PoolRest /\ BreakerInit
    /\ max_concurrent_queries = MaxLimit
    /\ max_concurrent_queries_per_user = 1
    /\ active_queries = <<>>
    /\ CallsInit(1)
    /\ RewriteRest /\ ReviewRest
Next == ExecNext
Spec == Init /\ [][Next]_vars

InitRewrite == PoolRest /\ BreakerInit /\ ExecRest /\ RewriteInit /\ ReviewRest
SpecRewrite == InitRewrite /\ [][RewriteNext]_vars

InitReview == PoolRest /\ BreakerInit /\ ExecRest /\ RewriteRest /\ ReviewInit
SpecReview == InitReview /\ [][ReviewNext]_vars

(***************************************************************************)
(* Claims about the pool (checked under SpecPool).                         *)
(***************************************************************************)
\* C4: under any interleaving of get_connection and return_connection, with
\* idle connections failing validation on the immediate path or after a
\* blocking wait, current_count never exceeds max_size.
C4_CountWithinCapacity == current_count <= max_size

\* C5: no connection is held by two workers at once: a connection that
\* get_connection returned to a worker is, until that worker gives it back,
\* neither returned to another worker nor left in the idle queue nor in
\* another worker's hands inside the pool.
C5_NoSharedConnection ==
    \A w \in PoolWorkers :
        p_held[w] # NoConn =>
            /\ \A v \in PoolWorkers \ {w} : p_held[v] # p_held[w] /\ p_conn[v] # p_held[w]
            /\ p_held[w] \notin SeqToSet(pool)

\* One worker holds a connection while another worker has just taken a
\* different one out of the idle queue and is validating it.
C5_Witness ==
    \E w \in PoolWorkers : \E v \in PoolWorkers \ {w} :
        /\ p_held[w] # NoConn
        /\ p_pc[v] = "validate" /\ p_conn[v] # NoConn

(***************************************************************************)
(* Claims about the circuit breaker (checked under SpecBreaker).           *)
(***************************************************************************)
\* C6: the failure that makes MAX_FAILURES factory failures in a row (no
\* recorded success in between) leaves the breaker open; and while the
\* breaker is open and the cooldown has not elapsed, a get_connection is
\* rejected by the breaker and never reaches the pool.
C6_OpensAndRejects ==
    /\ [][\A w \in Acquirers :
            (b_pc[w] = "record_failure" /\ b_pc'[w] = "out" /\ consec' >= MAX_FAILURES)
                => is_open']_vars
    /\ [][\A w \in Acquirers :
            (b_pc[w] = "out" /\ is_open /\ ~CooldownElapsed) => b_pc'[w] = "out"]_vars

\* C7: after the half-open reset admitted one caller, no other caller is
\* admitted before that caller's outcome is recorded.
C7_SingleTrial ==
    [][\A w \in Acquirers :
            (trial # {} /\ w \notin trial /\ b_pc[w] = "out") => b_pc'[w] = "out"]_vars

\* C8: when the caller admitted as the half-open trial records a failure, the
\* breaker is open right after that failure.
C8_TrialFailureReopens ==
    [][\A w \in Acquirers :
            (w \in trial /\ b_pc[w] = "record_failure" /\ b_pc'[w] = "out") => is_open']_vars

\* C9: right after _record_success the breaker is fully reset: failures = 0
\* and not open.
C9_SuccessFullyResets ==
    [][\A w \in Acquirers :
            (b_pc[w] = "record_success" /\ b_pc'[w] = "out")
                => (failures' = 0 /\ ~is_open')]_vars

(***************************************************************************)
(* Claims about the throttle (checked under SpecThrottle).                 *)
(***************************************************************************)
\* the call holds a throttle slot: it is inside the with-block
InBlock(c) == acquired[c] /\ e_pc[c] # "done"

\* C1: in every reachable state and for every env, no per-user counter is
\* negative, the per-user counters sum to at most max_concurrent_queries, and
\* each is at most max_concurrent_queries_per_user.
C1_ThrottleInvariant ==
    \A env \in DOMAIN active_queries :
        /\ SumValues(active_queries[env]) <= max_concurrent_queries
        /\ \A u \in DOMAIN active_queries[env] :
              /\ active_queries[env][u] >= 0
              /\ active_queries[env][u] <= max_concurrent_queries_per_user

\* An env is at its total limit while another call has been refused.
C1_Witness ==
    \E env \in DOMAIN active_queries :
        /\ SumValues(active_queries[env]) = max_concurrent_queries
        /\ \E c \in Calls :
              /\ e_pc[c] = "done" /\ e_env[c] = env
              /\ response[c] = Resp(FALSE, "too_many_concurrent", Absent, 5)

\* C3: with max_concurrent_queries_per_user = 1, two calls of one user on one
\* env never both hold a slot, and the call the throttle refuses returns at
\* once with the too-many-concurrent error and retry_after_seconds = 5: it has
\* taken no slot, validated nothing and reached no database.
C3_OneOfTwoProceeds ==
    max_concurrent_queries_per_user = 1 =>
        /\ \A c \in Calls : \A d \in Calls \ {c} :
              (InBlock(c) /\ InBlock(d)) => ~(e_env[c] = e_env[d] /\ e_user[c] = e_user[d])
        /\ \A c \in Calls :
              (e_pc[c] = "done" /\ response[c].error = "too_many_concurrent") =>
                  /\ response[c].retry_after_seconds = 5
                  /\ ~response[c].success
                  /\ ~acquired[c] /\ e_rel[c] = 0
                  /\ e_parsed[c] = NoSql /\ ~e_db[c] /\ e_out[c] = 0

\* One call of a user is inside the block and the same user's other call on
\* the same env has been refused, with room left under the total limit.
C3_Witness ==
    /\ max_concurrent_queries_per_user = 1
    /\ max_concurrent_queries > 1
    /\ \E c \in Calls : \E d \in Calls \ {c} :
          /\ InBlock(c)
          /\ e_pc[d] = "done" /\ response[d] = Resp(FALSE, "too_many_concurrent", Absent, 5)
          /\ e_env[c] = e_env[d] /\ e_user[c] = e_user[d]

(***************************************************************************)
(* Claims about execute_readonly (checked under Spec).                     *)
(***************************************************************************)
\* C2: when a call that passed the throttle returns, whatever the exit path,
\* its slot has been released exactly once (so the ledger counts exactly the
\* calls still inside the block) and every pooled connection it acquired has
\* been given back to the pool.
C2_ReleasedOnEveryExit ==
    /\ \A c \in Calls :
          (e_pc[c] = "done" /\ acquired[c]) =>
              e_rel[c] = 1 /\ e_out[c] = 0 /\ ~e_conn[c]
    /\ \A env \in {"Int", "Prd"}, user \in {"alice", "bob"} :
          DictGet(IF env \in DOMAIN active_queries THEN active_queries[env] ELSE <<>>, user)
              = Cardinality({c \in Calls : InBlock(c) /\ e_env[c] = env /\ e_user[c] = user})

\* A call returns the execution error after a statement failed on a
\* connection it had acquired.
C2_Witness ==
    \E c \in Calls :
        /\ e_pc[c] = "done" /\ acquired[c] /\ e_db[c]
        /\ response[c] = Resp(FALSE, "execution_error", Absent, Absent)

\* the input is exactly one top-level statement, a SELECT without INTO
SingleSelect(parsed) == Len(parsed) = 1 /\ parsed[1] = "select"

\* C10: a call reaches the database only if its input is exactly one
\* top-level statement that is a SELECT without INTO; for every other input
\* (non-SELECT, SELECT INTO, batch, empty, unparsable) it returns the security
\* violation with risk_score 100 and has made no database call.
C10_ReadonlyClosure ==
    \A c \in Calls :
        /\ e_db[c] => SingleSelect(e_parsed[c])
        /\ (e_pc[c] = "done" /\ e_parsed[c] # NoSql /\ ~SingleSelect(e_parsed[c])) =>
              /\ response[c].error = "security_violation"
              /\ ~response[c].success
              /\ response[c].risk_score = 100
              /\ ~e_db[c] /\ e_out[c] = 0

\* A two-statement batch has been rejected.
C10_Witness ==
    \E c \in Calls :
        /\ e_pc[c] = "done" /\ response[c] = Resp(FALSE, "security_violation", 100, Absent)
        /\ Len(e_parsed[c]) = 2 /\ e_parsed[c][1] = "select"

\* C11: a review finding blocks execution iff its severity is CRITICAL or
\* HIGH and its category is not BEST_PRACTICE.  When the review result
\* execute_readonly decides on holds such a finding, the call leaves with the
\* review rejection, carrying blocking_violations (exactly those findings),
\* review_summary and best_practice_warnings; when it holds none, whatever
\* best-practice findings it has, the call goes on to the cost gate.  A call
\* rejected by the review has sent no statement for execution.
C11_BlockingContract ==
    /\ [][\A c \in Calls :
            (e_pc[c] = "review_done" /\ e_pc'[c] # "review_done") =>
                LET issues == e_in[c].result.issues
                    blocking == {f \in issues : /\ f.severity \in {"CRITICAL", "HIGH"}
                                                 /\ f.category # "BEST_PRACTICE"}
                IN IF blocking # {}
                     THEN /\ e_pc'[c] = "release"
                          /\ response'[c].error = "review_blocked"
                          /\ ~response'[c].success
                          /\ DOMAIN e_extra'[c] =
                                {"blocking_violations", "review_summary", "best_practice_warnings"}
                          /\ e_extra'[c].blocking_violations = blocking
                          /\ e_extra'[c].best_practice_warnings =
                                {f \in issues : f.category = "BEST_PRACTICE"}
                     ELSE /\ e_pc'[c] = "cost"
                          /\ response'[c] = NoResponse]_vars
    /\ [](\A c \in Calls : response[c].error = "review_blocked" => ~e_sent[c].sent)

\* A call is rejected for a HIGH plan finding while its best-practice finding
\* is reported as a warning only.
C11_Witness ==
    \E c \in Calls :
        /\ response[c] = Resp(FALSE, "review_blocked", Absent, Absent)
        /\ e_extra[c].blocking_violations = {Finding("PLAN001", "HIGH", "PERFORMANCE")}
        /\ e_extra[c].best_practice_warnings = {Rule("BP001")}

\* C12: when should_inject holds and inject_nolock_hints fails, the call
\* returns success = false with the security-enforcement error and nothing
\* goes to Layer 6: every statement executed where should_inject holds is
\* the injector's output, never the original, and a call that ended with
\* that error has sent nothing.
C12_NolockFailClosed ==
    \A c \in Calls :
        /\ response[c].error = "security_enforcement_failed" =>
               /\ ~response[c].success
               /\ ~e_sent[c].sent
        /\ (e_sent[c].sent /\ ShouldInject(e_env[c], e_limits[c].enable_nolock_hint)) =>
               e_sent[c].nolock

C12_Witness ==
    \E c \in Calls :
        /\ response[c] = Resp(FALSE, "security_enforcement_failed", 100, Absent)
        /\ e_limits[c].enable_nolock_hint
        /\ e_env[c] = "Prd"
        /\ e_pc[c] = "done"

\* C13: with a non-empty allow-list the call goes on to the review only if
\* the target database (the explicit argument, else the connection default
\* of the environment) is a case-insensitive member of the list; in every
\* other case, however the environment's connection is configured, it
\* returns the database-not-allowed error.
C13_AllowListEnforced ==
    [][\A c \in Calls :
          (e_pc[c] = "allowlist_check" /\ e_pc'[c] # "allowlist_check"
             /\ e_in[c].allowed_databases # << >>) =>
              LET allowed == e_in[c].allowed_databases
                  target == IF e_in[c].database # "" THEN e_in[c].database
                            ELSE IF e_in[c].component.present THEN e_in[c].component.database
                            ELSE ""
                  member == /\ target # ""
                            /\ \E i \in DOMAIN allowed : Lower(allowed[i]) = Lower(target)
              IN IF member
                   THEN e_pc'[c] = "review" /\ response'[c] = NoResponse
                   ELSE /\ e_pc'[c] = "release"
                        /\ response'[c] = Resp(FALSE, "database_not_allowed", 100, Absent)]_vars

\* C14: at the cost gate, a plan whose extracted cost is strictly greater
\* than the threshold ends the call with the cost-exceeded error carrying
\* estimated_cost and threshold; a failed plan request or an empty plan lets
\* the call through to the hint rewrites and Layer 6.  A call that ended
\* with the cost-exceeded error has executed nothing.
C14_CostGate ==
    /\ [][\A c \in Calls :
            (e_pc[c] = "cost_check" /\ e_pc'[c] # "cost_check") =>
                LET plan == e_in[c].plan_xml
                    acquired_plan == e_in[c].success /\ plan.kind # "empty"
                    extracted == IF plan.kind \in {"stmt", "relops"} THEN plan.cost ELSE 0
                IN /\ (acquired_plan /\ extracted > e_in[c].cost_threshold) =>
                          /\ e_pc'[c] = "release"
                          /\ response'[c].error = "cost_exceeded"
                          /\ ~response'[c].success
                          /\ e_extra'[c] = [estimated_cost |-> extracted,
                                            threshold |-> e_in[c].cost_threshold]
                   /\ ~acquired_plan =>
                          /\ e_pc'[c] = "hints"
                          /\ response'[c] = NoResponse]_vars
    /\ [](\A c \in Calls : response[c].error = "cost_exceeded" => ~e_sent[c].sent)

C14_Witness ==
    \E c \in Calls :
        /\ response[c] = Resp(FALSE, "cost_exceeded", Absent, Absent)
        /\ e_extra[c] = [estimated_cost |-> 2, threshold |-> 1]

\* C15: in every successful response the number of rows in data is at
\* most max_rows of the environment and the byte estimate accumulated
\* while streaming is at most max_payload_size_mb megabytes; a stream whose
\* estimate exceeds the cap ends in a failure that carries no rows.
C15_RowAndByteCaps ==
    [][\A c \in Calls :
          (e_pc[c] = "exec_done" /\ e_pc'[c] # "exec_done" /\ e_in[c] # NoInput) =>
              LET fetched == e_in[c].fetched
                  cap == e_in[c].max_payload_size_mb * BytesPerMb
              IN /\ response'[c].success =>
                        /\ Len(e_extra'[c].data) <= e_in[c].max_rows
                        /\ fetched.current_payload_size <= cap
                 /\ fetched.current_payload_size > cap =>
                        /\ ~response'[c].success
                        /\ "data" \notin DOMAIN e_extra'[c]]_vars

\* C16: when the fetch stopped at the row cap with rows still unread, the
\* successful response holds the partial data, row_count equal to the
\* number of rows returned, and a warning that the result was truncated.
C16_TruncationWarned ==
    [][\A c \in Calls :
          (/\ e_pc[c] = "exec_done" /\ e_pc'[c] # "exec_done"
           /\ response'[c].success
           /\ e_in[c].max_rows >= 1
           /\ Len(e_in[c].fetched.rows) >= e_in[c].max_rows
           /\ Len(e_in[c].fetched.rows) < Len(e_in[c].stream)) =>
              /\ e_extra'[c].data = SubSeq(e_in[c].stream, 1, Len(e_in[c].fetched.rows))
              /\ e_extra'[c].row_count = Len(e_extra'[c].data)
              /\ \E key \in DOMAIN e_extra'[c] : key \in {"warning", "warnings", "truncated"}]_vars

\* C17: when page_size and page are supplied and the call succeeds, the
\* response carries pagination = {page, page_size, offset = (page - 1) *
\* page_size, rows_returned} with rows_returned <= page_size, and the
\* statement executed fetches exactly that page (OFFSET offset ROWS FETCH
\* NEXT page_size ROWS ONLY), whatever SELECT was accepted.
C17_PageFetched ==
    [][\A c \in Calls :
          (/\ e_pc[c] = "exec_done" /\ e_pc'[c] # "exec_done"
           /\ response'[c].success
           /\ ~e_page[c].page_size.none /\ ~e_page[c].page.none) =>
              LET page_size == e_page[c].page_size.value
                  page == e_page[c].page.value
              IN /\ "pagination" \in DOMAIN e_extra'[c]
                 /\ e_extra'[c].pagination =
                        [page |-> page, page_size |-> page_size,
                         offset |-> (page - 1) * page_size,
                         rows_returned |-> Len(e_extra'[c].data)]
                 /\ e_extra'[c].pagination.rows_returned <= page_size
                 /\ e_sent[c].sent
                 /\ e_sent[c].offset = (page - 1) * page_size
                 /\ e_sent[c].fetch = page_size]_vars

\* C18 as stated: in every environment whose enable_nolock_hint is true the
\* statement sent to Layer 6 is the NOLOCK injector's output, and where the
\* setting is false the statement is not hint-rewritten.
C18_EveryEnabledEnvironment ==
    \A c \in Calls :
        e_sent[c].sent => (e_sent[c].nolock <=> e_limits[c].enable_nolock_hint)

\* C18 amended: the statement sent to Layer 6 is the NOLOCK injector's
\* output exactly when the environment is Prd and its enable_nolock_hint is
\* true; in every other environment, whatever the setting, and in Prd with
\* the setting false, the statement is not hint-rewritten.
C18_ProductionOnly ==
    \A c \in Calls :
        e_sent[c].sent =>
            (e_sent[c].nolock <=> (e_env[c] = "Prd" /\ e_limits[c].enable_nolock_hint))

C18_Witness ==
    \E c \in Calls :
        /\ e_sent[c].sent /\ e_sent[c].nolock
        /\ e_env[c] = "Prd" /\ e_limits[c].enable_nolock_hint
        /\ response[c].success

(***************************************************************************)
(* Claims about the rewriters (checked under SpecRewrite).                 *)
(***************************************************************************)
HintCount(hints, name) == Cardinality({i \in DOMAIN hints : hints[i].name = name})

\* C19: each rewriter is idempotent on its own output: applied again with
\* the same arguments to the statement it returned, inject_nolock_hints,
\* inject_resource_hints and _apply_pagination return that statement
\* unchanged; no table then carries a second NOLOCK, and the OPTION clause
\* written holds MAXDOP and MAX_GRANT_PERCENT once each.
C19_RewriteIdempotent ==
    /\ [][(r_last' = r_last /\ r_last.rewriter \in {"nolock", "resource", "pagination"}) =>
              r_stmt' = r_stmt]_vars
    /\ [](r_last.rewriter = "nolock" =>
              \A i \in DOMAIN r_stmt.tables :
                  Cardinality({j \in DOMAIN r_stmt.tables[i] :
                                  Upper(r_stmt.tables[i][j]) = "NOLOCK"}) = 1)
    /\ [](r_last.rewriter = "resource" =>
              LET clause == r_stmt.options[Len(r_stmt.options)]
              IN /\ Len(r_stmt.options) <= 2
                 /\ HintCount(clause.hints, "MAXDOP") = 1
                 /\ HintCount(clause.hints, "MAX_GRANT_PERCENT") = 1)

\* a statement with a lower-case OPTION clause of its own and a hinted
\* table, after its second pass through inject_resource_hints
C19_Witness ==
    /\ r_last.rewriter = "resource"
    /\ r_times = 2
    /\ Len(r_stmt.options) = 1
    /\ Len(r_stmt.options[1].hints) = 3
    /\ \E i \in DOMAIN r_stmt.tables : r_stmt.tables[i] = <<"INDEX", "NOLOCK">>

C22_TopSeverityIsMax ==
    (v_stage = "returned" /\ v_result.issues # {}) =>
        /\ \E f \in v_result.issues : f.severity = v_result.top_severity
        /\ \A f \in v_result.issues :
              SeverityPriority(f.severity) <= SeverityPriority(v_result.top_severity)

\* C23: for every script that parses, the safety_checks are functions of the
\* statement tags: is_readonly holds exactly when every top-level statement
\* is a SELECT (so a script with an EXEC is not read-only), has_write_ops
\* exactly when some statement is an INSERT, UPDATE, DELETE or MERGE, and
\* has_ddl exactly when some statement is a CREATE, ALTER or DROP.
C23_SafetyChecksByTag ==
    (v_stage \in {"ast", "returned"} /\ v_sql.parses) =>
        /\ v_safety.is_readonly <=> v_sql.kind = "select"
        /\ v_safety.has_write_ops <=> v_sql.kind \in {"update_where", "delete_no_where"}
        /\ v_safety.has_ddl <=> v_sql.kind = "create"

\* C24: on a parse error the review returned holds exactly one finding,
\* SYN001 of severity CRITICAL, with status REJECTED and risk_score 100, and
\* review returns it without asking for a plan or for metadata:
\* execution_plan_available is still false and no database call was made.
C24_SyntaxErrorShortCircuits ==
    (~v_sql.parses /\ v_stage # "called") =>
        /\ v_stage \in {"ast", "returned"}
        /\ v_result.issues = {Finding("SYN001", "CRITICAL", "MAINTAINABILITY")}
        /\ v_result.status = "REJECTED"
        /\ v_result.risk_score = 100
        /\ ~v_insights.execution_plan_available
        /\ ~v_insights.db_called

\* the review of a script that does not parse has returned
C24_Witness ==
    /\ ~v_sql.parses
    /\ v_stage = "returned"
    /\ v_result.status = "REJECTED"

(***************************************************************************)
(* Further claims about the pool (checked under SpecPool, SpecPoolFair).   *)
(***************************************************************************)
\* C25: with max_size connections handed out and none returned, a
\* get_connection creates no connection: it goes to the wait, the wait ends
\* (it lasts at most the timeout), and with the idle queue still empty it
\* ends in the pool-exhausted error, the worker holding no connection.
C25_ExhaustedPoolTimesOut ==
    /\ [][\A w \in PoolWorkers :
            (/\ p_pc[w] = "check_create" /\ p_pc'[w] # "check_create"
             /\ Cardinality({v \in PoolWorkers : p_held[v] # NoConn}) = max_size)
                => p_pc'[w] = "wait" /\ current_count' = current_count]_vars
    /\ [][\A w \in PoolWorkers :
            (p_pc[w] = "wait" /\ p_pc'[w] # "wait" /\ pool = <<>>)
                => /\ p_pc'[w] = "out" /\ p_held'[w] = NoConn
                   /\ alive' = alive /\ current_count' = current_count]_vars
    /\ \A w \in PoolWorkers : (p_pc[w] = "wait") ~> (p_pc[w] # "wait")

\* a worker waits on the empty idle queue while max_size connections are
\* handed out
C25_Witness ==
    \E w \in PoolWorkers :
        /\ p_pc[w] = "wait" /\ pool = <<>>
        /\ Cardinality({v \in PoolWorkers : p_held[v] # NoConn}) = max_size

C27_ReviewFailsOpen ==
    /\ [][\A c \in Calls :
            (e_pc[c] = "review" /\ e_pc'[c] \notin {"review", "db_get", "review_done"}) =>
                /\ e_pc'[c] = "cost"
                /\ response'[c] = NoResponse
                /\ e_extra'[c] = NoExtra]_vars
    /\ [][\A c \in Calls :
            (/\ e_pc[c] = "exec_done" /\ e_pc'[c] # "exec_done"
             /\ e_extra[c] = NoExtra /\ e_dbres[c] = "ok") =>
                /\ response'[c].success
                /\ e_sent[c].sent
                /\ e_extra'[c].review_summary = [status |-> "none", risk_score |-> Absent]
                /\ e_extra'[c].best_practice_warnings = {}]_vars

\* a call whose review raised has executed its statement and returned success
C27_Witness ==
    \E c \in Calls :
        /\ e_pc[c] = "done" /\ response[c].success /\ e_sent[c].sent
        /\ e_extra[c].review_summary.status = "none"

\* C28: a review that is REJECTED by its score alone, reached through MEDIUM,
\* LOW or best-practice findings (no CRITICAL or HIGH finding outside
\* BEST_PRACTICE, top_severity not CRITICAL), does not block: the call goes
\* on to the cost gate, and when the statement has been executed the
\* response is a success whose review_summary.status is REJECTED.
C28_RejectedByScoreDoesNotBlock ==
    /\ [][\A c \in Calls :
            (/\ e_pc[c] = "review_done" /\ e_pc'[c] # "review_done"
             /\ e_in[c].result.status = "REJECTED"
             /\ e_in[c].result.risk_score >= 80
             /\ e_in[c].result.top_severity # "CRITICAL"
             /\ \A f \in e_in[c].result.issues :
                   f.severity \in {"CRITICAL", "HIGH"} => f.category = "BEST_PRACTICE") =>
                /\ e_pc'[c] = "cost"
                /\ response'[c] = NoResponse
                /\ e_extra'[c].review_summary.status = "REJECTED"]_vars
    /\ [][\A c \in Calls :
            (/\ e_pc[c] = "exec_done" /\ e_pc'[c] # "exec_done" /\ e_dbres[c] = "ok"
             /\ e_extra[c] # NoExtra /\ e_extra[c].review_summary.status = "REJECTED") =>
                /\ response'[c].success
                /\ e_sent[c].sent
                /\ e_extra'[c].review_summary.status = "REJECTED"]_vars

\* a call whose review was REJECTED for a cross join has executed its
\* statement and returned success
C28_Witness ==
    \E c \in Calls :
        /\ e_pc[c] = "done" /\ response[c].success /\ e_sent[c].sent
        /\ e_extra[c].review_summary = [status |-> "REJECTED", risk_score |-> 80]

(***************************************************************************)
(* Claims about waiting on the pool (checked under SpecPool).              *)
(***************************************************************************)
\* C29: a worker waiting in get_connection on an exhausted pool gets a
\* connection when capacity is freed during its wait, be it by a healthy
\* connection returned to the idle queue or by a returned connection that
\* fails validation and is discarded (current_count falls below max_size):
\* its wait ends in the pool-exhausted error only while no connection is
\* idle and current_count is not below max_size.
C29_WaiterUsesFreedCapacity ==
    [][\A w \in PoolWorkers :
          (p_pc[w] = "wait" /\ p_pc'[w] = "out") =>
              (pool = <<>> /\ current_count >= max_size)]_vars

====
